---- MODULE Spec2Model ----
(***************************************************************************)
(* Model of IteratoP's batch loop controller, IterationProcessor.run       *)
(* (core.ts), with its termination evaluator (checkTermination), its       *)
(* transition gate, its event emission and its error path.                 *)
(*                                                                         *)
(* Optional values (`x?: T`, `undefined`) are sequences of length 0 or 1.  *)
(* Opaque user values are tokens: the state returned by initialize is 0,   *)
(* the state returned by the transition of iteration j is j + 1.           *)
(* Logging is not modelled, except for the evaluation of the arguments of  *)
(* the log call after act, which can throw.                                *)
(***************************************************************************)
EXTENDS Integers, Sequences, FiniteSets, TLC

\* ---------------------------------------------------------------- bounds
MaxIter == 2
MaxTime == 2

\* ------------------------------------------------------- optional values
Absent == <<>>
Some(v) == <<v>>
\* JavaScript's `x ?? d`
Coalesce(x, d) == IF x = Absent THEN d ELSE x[1]
\* JavaScript's truthiness of an optional number
Truthy(x) == x # Absent /\ x[1] # 0

\* --------------------------------------------------- configuration (core)
DefaultMaxIterations == 5
DefaultTargetScore == 70
DefaultEarlyStopScore == 95
DefaultMinIterations == 1

ConfigFields ==
  [ maxIterations : {Some(n) : n \in 0..MaxIter},
    minIterations : {Absent} \cup {Some(n) : n \in 0..MaxIter},
    targetScore : {Absent, Some(0), Some(100)},
    earlyStopScore : {Absent, Some(200)},
    timeout : {Absent, Some(0), Some(1)},
    verbose : {Absent},
    alwaysRunTransition : {Absent, Some(TRUE)},
    skipMinIterations : {Absent, Some(TRUE)},
    logger : {Absent} ]

\* the IterationConfig objects handed to the constructor: every field but
\* maxIterations may be left out, and at most one threshold is overridden
ConfigInputs ==
  { c \in ConfigFields : c.targetScore = Absent \/ c.earlyStopScore = Absent }

\* the constructor's validation: TRUE when it throws
ConstructorThrows(c) ==
  Coalesce(c.minIterations, DefaultMinIterations)
    > Coalesce(c.maxIterations, DefaultMaxIterations)

\* the ResolvedConfig the constructor stores
Constructor(c) ==
  [ maxIterations |-> Coalesce(c.maxIterations, DefaultMaxIterations),
    targetScore |-> Coalesce(c.targetScore, DefaultTargetScore),
    earlyStopScore |-> Coalesce(c.earlyStopScore, DefaultEarlyStopScore),
    minIterations |-> Coalesce(c.minIterations, DefaultMinIterations),
    timeout |-> c.timeout,
    verbose |-> Coalesce(c.verbose, FALSE),
    alwaysRunTransition |-> Coalesce(c.alwaysRunTransition, FALSE),
    skipMinIterations |-> Coalesce(c.skipMinIterations, FALSE),
    logger |-> c.logger ]

\* the IterationOptions: which optional callbacks are supplied
OptionInputs == [ shouldTerminate : BOOLEAN, onError : BOOLEAN ]

\* ------------------------------------------------ values of the callbacks
ScoreValues == {70, 95}
Evaluations == [ score : ScoreValues, shouldContinue : BOOLEAN ]
ActionResults ==
  [ data : {"data"}, cost : {Absent, Some(1)} ]
    \cup {[ data |-> "undefined", cost |-> Absent ]}

\* finalEvaluation's initial value
InitialEvaluation == [ score |-> 0, shouldContinue |-> TRUE ]
NoActionResult == [ data |-> "data", cost |-> Absent ]
NoDecision == [ terminate |-> FALSE, reason |-> "max_iterations" ]
NoContext ==
  [ iteration |-> 0, maxIterations |-> 0, previousEvaluation |-> Absent ]
NoResult ==
  [ result |-> "none", iterations |-> 0, finalScore |-> 0,
    converged |-> FALSE, terminationReason |-> "max_iterations",
    totalCost |-> 0, history |-> <<>> ]

\* JSON.stringify(data): undefined for the value undefined, a string otherwise
JSONStringify(data) == IF data = "undefined" THEN Absent ELSE Some("json")

VARIABLES
  config,             \* this.config
  options,            \* this.options (which optional callbacks exist)
  pc,                 \* position of run()
  clock,              \* Date.now()
  startTime,          \* run: startTime
  i,                  \* run: loop index
  state,              \* run: state
  history,            \* run: history
  finalEvaluation,    \* run: finalEvaluation
  terminationReason,  \* run: terminationReason
  context,            \* run: context of the current iteration
  actionResult,       \* run: actionResult of the current iteration
  evaluation,         \* run: evaluation of the current iteration
  decision,           \* run: shouldTerminate (result of checkTermination)
  error,              \* the value caught by run's catch
  outcome,            \* "none", "resolved", "fallback" or "rejected"
  result,             \* the IterationResult run resolves with
  events,             \* every event handed to emit, in order
  calls,              \* every callback invocation, in order
  decisions,          \* one record per evaluated termination decision
  threw,              \* TRUE once a user callback has thrown
  startConfig,        \* the config in force when run() was called
  procs,              \* the configs of the processors that are not running
  snapshot,           \* the object returned by the latest getConfig()
  lastCall,           \* the latest configuration call and how it ended
  listeners,          \* this.listeners
  handles,            \* the unsubscribe functions on() has returned
  throwers,           \* the listeners that throw when called
  stream,             \* executeStream: its locals and what it has called
  util                \* a call of a utility function and its result

vars ==
  << config, options, pc, clock, startTime, i, state, history,
     finalEvaluation, terminationReason, context, actionResult, evaluation,
     decision, error, outcome, result, events, calls, decisions,
     threw, startConfig, procs, snapshot, lastCall, listeners, handles,
     throwers, stream, util >>

cfgVars == << procs, snapshot, lastCall >>
lsnVars == << listeners, handles, throwers >>
\* what neither run() nor a configuration call touches
otherVars == << lsnVars, stream, util >>

runLocals ==
  << startTime, i, state, history, finalEvaluation, terminationReason,
     context, actionResult, evaluation, decision >>

\* the cost sum that leaves out the last history entry
RECURSIVE TotalCost_SkipLast(_)
TotalCost_SkipLast(h) ==
  IF Len(h) <= 1 THEN 0
  ELSE TotalCost_SkipLast(SubSeq(h, 1, Len(h) - 1))
         + Coalesce(h[Len(h) - 1].actionResult.cost, 0)

\* history.reduce((sum, h) => sum + (h.actionResult.metadata?.cost ?? 0), 0)
RECURSIVE TotalCost(_)
TotalCost(h) ==
  IF h = <<>> THEN 0
  ELSE TotalCost(SubSeq(h, 1, Len(h) - 1))
         + Coalesce(h[Len(h)].actionResult.cost, 0)

\* checkTermination with the early stop tested before shouldTerminate
checkTermination_EarlyFirst(custom, ev, iteration, cfg) ==
  IF ev.score >= cfg.earlyStopScore
    THEN [ terminate |-> TRUE, reason |-> "early_stop" ]
  ELSE IF custom
    THEN [ terminate |-> TRUE, reason |-> "manual_stop" ]
  ELSE IF ~ev.shouldContinue
    THEN [ terminate |-> TRUE, reason |-> "converged" ]
  ELSE IF ev.score >= cfg.targetScore
          /\ (iteration >= cfg.minIterations - 1 \/ cfg.skipMinIterations)
    THEN [ terminate |-> TRUE, reason |-> "converged" ]
  ELSE [ terminate |-> FALSE, reason |-> "max_iterations" ]

\* checkTermination with the early stop subject to the minimum iterations
checkTermination_EarlyFloored(custom, ev, iteration, cfg) ==
  IF custom
    THEN [ terminate |-> TRUE, reason |-> "manual_stop" ]
  ELSE IF ev.score >= cfg.earlyStopScore
          /\ (iteration >= cfg.minIterations - 1 \/ cfg.skipMinIterations)
    THEN [ terminate |-> TRUE, reason |-> "early_stop" ]
  ELSE IF ~ev.shouldContinue
    THEN [ terminate |-> TRUE, reason |-> "converged" ]
  ELSE IF ev.score >= cfg.targetScore
          /\ (iteration >= cfg.minIterations - 1 \/ cfg.skipMinIterations)
    THEN [ terminate |-> TRUE, reason |-> "converged" ]
  ELSE [ terminate |-> FALSE, reason |-> "max_iterations" ]

\* checkTermination without the minimum iterations floor
checkTermination_NoFloor(custom, ev, iteration, cfg) ==
  IF custom
    THEN [ terminate |-> TRUE, reason |-> "manual_stop" ]
  ELSE IF ev.score >= cfg.earlyStopScore
    THEN [ terminate |-> TRUE, reason |-> "early_stop" ]
  ELSE IF ~ev.shouldContinue
    THEN [ terminate |-> TRUE, reason |-> "converged" ]
  ELSE IF ev.score >= cfg.targetScore
    THEN [ terminate |-> TRUE, reason |-> "converged" ]
  ELSE [ terminate |-> FALSE, reason |-> "max_iterations" ]

\* checkTermination(state, evaluation, context, iteration), where custom is
\* the truthiness of this.options.shouldTerminate?.(...)
checkTermination(custom, ev, iteration, cfg) ==
  IF custom
    THEN [ terminate |-> TRUE, reason |-> "manual_stop" ]
  ELSE IF ev.score >= cfg.earlyStopScore
    THEN [ terminate |-> TRUE, reason |-> "early_stop" ]
  ELSE IF ~ev.shouldContinue
    THEN [ terminate |-> TRUE, reason |-> "converged" ]
  ELSE IF ev.score >= cfg.targetScore
          /\ (iteration >= cfg.minIterations - 1 \/ cfg.skipMinIterations)
    THEN [ terminate |-> TRUE, reason |-> "converged" ]
  ELSE [ terminate |-> FALSE, reason |-> "max_iterations" ]

\* the transition gate without the alwaysRunTransition-on-termination case
TransitionGate_NoTerminal(iteration, d, cfg) ==
  LET isLastIteration == iteration = cfg.maxIterations - 1
  IN  (~isLastIteration \/ cfg.alwaysRunTransition) /\ ~d.terminate

\* the transition gate without the last-iteration exception
TransitionGate_IgnoreLast(iteration, d, cfg) ==
  ~d.terminate \/ (cfg.alwaysRunTransition /\ d.terminate)

\* the transition gate of run(): TRUE when transition is invoked
TransitionGate(iteration, d, cfg) ==
  LET isLastIteration == iteration = cfg.maxIterations - 1
      shouldRunTransition ==
        (~isLastIteration \/ cfg.alwaysRunTransition) /\ ~d.terminate
  IN  shouldRunTransition \/ (cfg.alwaysRunTransition /\ d.terminate)

\* the timeout test firing one millisecond late
TimeoutReached_Late(cfg, now, start) ==
  Truthy(cfg.timeout) /\ now - start > cfg.timeout[1] + 1

\* the timeout test at the head of the loop
TimeoutReached(cfg, now, start) ==
  Truthy(cfg.timeout) /\ now - start > cfg.timeout[1]

\* no processor besides the running one, no configuration call yet
NoSnapshot == [ of |-> 0, alias |-> FALSE, value |-> <<>> ]
NoCall ==
  [ op |-> "none", target |-> 0, arg |-> <<>>, threw |-> FALSE,
    returned |-> 0, before |-> <<>> ]

\* the locals of run() before run() is called
RunIdle ==
  /\ pc = "idle"
  /\ clock = 0
  /\ startTime = 0
  /\ i = 0
  /\ state = Absent
  /\ history = <<>>
  /\ finalEvaluation = InitialEvaluation
  /\ terminationReason = "max_iterations"
  /\ context = NoContext
  /\ actionResult = NoActionResult
  /\ evaluation = InitialEvaluation
  /\ decision = NoDecision
  /\ error = "none"
  /\ outcome = "none"
  /\ result = NoResult
  /\ events = <<>>
  /\ calls = <<>>
  /\ decisions = <<>>
  /\ threw = FALSE

\* no listener subscribed, no stream execution and no utility call yet
NoStream == [ pc |-> "idle" ]
NoUtil == [ op |-> "none" ]
OthersIdle ==
  /\ listeners = <<>>
  /\ handles = <<>>
  /\ throwers = {}
  /\ stream = NoStream
  /\ util = NoUtil

Init ==
  /\ \E c \in ConfigInputs :
       /\ ~ConstructorThrows(c)
       /\ config = Constructor(c)
  /\ options \in OptionInputs
  /\ RunIdle
  /\ startConfig = config
  /\ procs = << Absent, Absent >>
  /\ snapshot = NoSnapshot
  /\ lastCall = NoCall
  /\ OthersIdle

\* Date.now() advances.  The clock is read by the timeout test only, so it
\* advances only when a timeout is configured, and only while initialize or
\* act is awaited: a delay in a later phase of an iteration reaches the next
\* timeout test exactly as a delay in its act does.
Tick ==
  /\ pc \in {"initialize", "act"}
  /\ config.timeout # Absent
  /\ clock < MaxTime
  /\ clock' = clock + 1
  /\ UNCHANGED << config, options, pc, runLocals, error, outcome, result,
                  events, calls, decisions, threw >>
  /\ UNCHANGED << startConfig, cfgVars, otherVars >>

\* run(input) up to the call of initialize
RunStart ==
  /\ pc = "idle"
  /\ startTime' = clock
  /\ events' = Append(events, <<"start">>)
  /\ pc' = "initialize"
  /\ UNCHANGED << config, options, clock, i, state, history, finalEvaluation,
                  terminationReason, context, actionResult, evaluation,
                  decision, error, outcome, result, calls, decisions, threw >>
  /\ startConfig' = config
  /\ UNCHANGED << cfgVars, otherVars >>

\* state = await this.options.initialize(input)
Initialize ==
  /\ pc = "initialize"
  /\ calls' = Append(calls, [ phase |-> "initialize", iteration |-> -1,
                              state |-> Absent, context |-> NoContext ])
  /\ \/ /\ state' = Some(0)
        /\ pc' = "loop"
        /\ UNCHANGED << error, threw >>
     \/ /\ error' = "initialize"
        /\ threw' = TRUE
        /\ pc' = "catch"
        /\ UNCHANGED state
  /\ UNCHANGED << config, options, clock, startTime, i, history,
                  finalEvaluation, terminationReason, context, actionResult,
                  evaluation, decision, outcome, result, events, decisions >>
  /\ UNCHANGED << startConfig, cfgVars, otherVars >>

\* the loop head whose context carries the evaluation before the previous
\* one
LoopHead_NoPreviousEvaluation ==
  /\ pc = "loop"
  /\ IF ~(i < config.maxIterations)
       THEN /\ pc' = "finalize"
            /\ UNCHANGED << terminationReason, context, events >>
       ELSE IF TimeoutReached(config, clock, startTime)
       THEN /\ terminationReason' = "timeout"
            /\ pc' = "finalize"
            /\ UNCHANGED << context, events >>
       ELSE /\ context' =
                 [ iteration |-> i,
                   maxIterations |-> config.maxIterations,
                   previousEvaluation |-> Absent ]
            /\ events' = Append(events, <<"iteration_start", i>>)
            /\ pc' = "act"
            /\ UNCHANGED terminationReason
  /\ UNCHANGED << config, options, clock, startTime, i, state, history,
                  finalEvaluation, actionResult, evaluation, decision, error,
                  outcome, result, calls, decisions, threw >>
  /\ UNCHANGED << startConfig, cfgVars, otherVars >>

\* the loop condition, the timeout check, the context and iteration_start
LoopHead ==
  /\ pc = "loop"
  /\ IF ~(i < config.maxIterations)
       THEN /\ pc' = "finalize"
            /\ UNCHANGED << terminationReason, context, events >>
       ELSE IF TimeoutReached(config, clock, startTime)
       THEN /\ terminationReason' = "timeout"
            /\ pc' = "finalize"
            /\ UNCHANGED << context, events >>
       ELSE /\ context' =
                 [ iteration |-> i,
                   maxIterations |-> config.maxIterations,
                   previousEvaluation |->
                     IF i > 0 THEN Some(finalEvaluation) ELSE Absent ]
            /\ events' = Append(events, <<"iteration_start", i>>)
            /\ pc' = "act"
            /\ UNCHANGED terminationReason
  /\ UNCHANGED << config, options, clock, startTime, i, state, history,
                  finalEvaluation, actionResult, evaluation, decision, error,
                  outcome, result, calls, decisions, threw >>
  /\ UNCHANGED << startConfig, cfgVars, otherVars >>

\* act followed directly by the history entry, evaluate left out
Act_SkipEvaluate ==
  /\ pc = "act"
  /\ calls' = Append(calls, [ phase |-> "act", iteration |-> i,
                              state |-> state, context |-> context ])
  /\ \/ \E ar \in ActionResults :
          /\ actionResult' = ar
          /\ events' = Append(events, <<"action_complete", i>>)
          /\ IF JSONStringify(ar.data) = Absent
               THEN /\ error' = "TypeError"
                    /\ pc' = "catch"
               ELSE /\ pc' = "record"
                    /\ UNCHANGED error
          /\ UNCHANGED threw
     \/ /\ error' = "act"
        /\ threw' = TRUE
        /\ pc' = "catch"
        /\ UNCHANGED << actionResult, events >>
  /\ UNCHANGED << config, options, clock, startTime, i, state, history,
                  finalEvaluation, terminationReason, context, evaluation,
                  decision, outcome, result, decisions >>
  /\ UNCHANGED << startConfig, cfgVars, otherVars >>

\* actionResult = await this.options.act(state, context), action_complete,
\* and the arguments of the log call that follows
Act ==
  /\ pc = "act"
  /\ calls' = Append(calls, [ phase |-> "act", iteration |-> i,
                              state |-> state, context |-> context ])
  /\ \/ \E ar \in ActionResults :
          /\ actionResult' = ar
          /\ events' = Append(events, <<"action_complete", i>>)
          /\ IF JSONStringify(ar.data) = Absent
               THEN /\ error' = "TypeError"
                    /\ pc' = "catch"
               ELSE /\ pc' = "evaluate"
                    /\ UNCHANGED error
          /\ UNCHANGED threw
     \/ /\ error' = "act"
        /\ threw' = TRUE
        /\ pc' = "catch"
        /\ UNCHANGED << actionResult, events >>
  /\ UNCHANGED << config, options, clock, startTime, i, state, history,
                  finalEvaluation, terminationReason, context, evaluation,
                  decision, outcome, result, decisions >>
  /\ UNCHANGED << startConfig, cfgVars, otherVars >>

\* evaluation = await this.options.evaluate(state, actionResult, context)
Evaluate ==
  /\ pc = "evaluate"
  /\ calls' = Append(calls, [ phase |-> "evaluate", iteration |-> i,
                              state |-> state, context |-> context ])
  /\ \/ \E ev \in Evaluations :
          /\ evaluation' = ev
          /\ finalEvaluation' = ev
          /\ events' = Append(events, <<"evaluation_complete", i>>)
          /\ pc' = "record"
          /\ UNCHANGED << error, threw >>
     \/ /\ error' = "evaluate"
        /\ threw' = TRUE
        /\ pc' = "catch"
        /\ UNCHANGED << evaluation, finalEvaluation, events >>
  /\ UNCHANGED << config, options, clock, startTime, i, state, history,
                  terminationReason, context, actionResult, decision, outcome,
                  result, decisions >>
  /\ UNCHANGED << startConfig, cfgVars, otherVars >>

\* the history entry numbered from 1
HistoryEntry_OneBased(n, ar, ev) ==
  [ iteration |-> n + 1, actionResult |-> ar, evaluation |-> ev ]

\* the history entry run() builds for iteration n
HistoryEntry(n, ar, ev) ==
  [ iteration |-> n, actionResult |-> ar, evaluation |-> ev ]

\* history.push(iterationHistory) and iteration_complete
Record ==
  /\ pc = "record"
  /\ history' = Append(history, HistoryEntry(i, actionResult, evaluation))
  /\ events' = Append(events, <<"iteration_complete", i>>)
  /\ pc' = "check"
  /\ UNCHANGED << config, options, clock, startTime, i, state,
                  finalEvaluation, terminationReason, context, actionResult,
                  evaluation, decision, error, outcome, result, calls,
                  decisions, threw >>
  /\ UNCHANGED << startConfig, cfgVars, otherVars >>

\* shouldTerminate = this.checkTermination(...), and the transition gate
Check ==
  /\ pc = "check"
  /\ \/ \E custom \in (IF options.shouldTerminate THEN BOOLEAN ELSE {FALSE}) :
          LET d == checkTermination(custom, evaluation, i, config)
              runs == TransitionGate(i, d, config)
          IN  /\ decision' = d
              /\ decisions' =
                   Append(decisions,
                          [ iteration |-> i, custom |-> custom,
                            terminate |-> d.terminate, reason |-> d.reason,
                            transition |-> runs ])
              /\ calls' =
                   IF options.shouldTerminate
                     THEN Append(calls, [ phase |-> "shouldTerminate",
                                          iteration |-> i, state |-> state,
                                          context |-> context ])
                     ELSE calls
              /\ pc' = IF runs THEN "transition" ELSE "terminate"
              /\ UNCHANGED << error, threw >>
     \/ /\ options.shouldTerminate
        /\ calls' = Append(calls, [ phase |-> "shouldTerminate",
                                    iteration |-> i, state |-> state,
                                    context |-> context ])
        /\ error' = "shouldTerminate"
        /\ threw' = TRUE
        /\ pc' = "catch"
        /\ UNCHANGED << decision, decisions >>
  /\ UNCHANGED << config, options, clock, startTime, i, state, history,
                  finalEvaluation, terminationReason, context, actionResult,
                  evaluation, outcome, result, events >>
  /\ UNCHANGED << startConfig, cfgVars, otherVars >>

\* transition called and its return value dropped
Transition_KeepsState ==
  /\ pc = "transition"
  /\ calls' = Append(calls, [ phase |-> "transition", iteration |-> i,
                              state |-> state, context |-> context ])
  /\ \/ /\ events' = Append(events, <<"transition_complete", i>>)
        /\ pc' = "terminate"
        /\ UNCHANGED << error, threw >>
     \/ /\ error' = "transition"
        /\ threw' = TRUE
        /\ pc' = "catch"
        /\ UNCHANGED events
  /\ UNCHANGED << config, options, clock, startTime, i, state, history,
                  finalEvaluation, terminationReason, context, actionResult,
                  evaluation, decision, outcome, result, decisions >>
  /\ UNCHANGED << startConfig, cfgVars, otherVars >>

\* state = await this.options.transition(...), transition_complete
Transition ==
  /\ pc = "transition"
  /\ calls' = Append(calls, [ phase |-> "transition", iteration |-> i,
                              state |-> state, context |-> context ])
  /\ \/ /\ state' = Some(i + 1)
        /\ events' = Append(events, <<"transition_complete", i>>)
        /\ pc' = "terminate"
        /\ UNCHANGED << error, threw >>
     \/ /\ error' = "transition"
        /\ threw' = TRUE
        /\ pc' = "catch"
        /\ UNCHANGED << state, events >>
  /\ UNCHANGED << config, options, clock, startTime, i, history,
                  finalEvaluation, terminationReason, context, actionResult,
                  evaluation, decision, outcome, result, decisions >>
  /\ UNCHANGED << startConfig, cfgVars, otherVars >>

\* the termination step that emits converged after every iteration
Terminate_EveryIteration ==
  /\ pc = "terminate"
  /\ events' = Append(events, <<"converged", i>>)
  /\ IF decision.terminate
       THEN /\ terminationReason' = decision.reason
            /\ pc' = "finalize"
            /\ UNCHANGED i
       ELSE /\ i' = i + 1
            /\ pc' = "loop"
            /\ UNCHANGED terminationReason
  /\ UNCHANGED << config, options, clock, startTime, state, history,
                  finalEvaluation, context, actionResult, evaluation,
                  decision, error, outcome, result, calls, decisions, threw >>
  /\ UNCHANGED << startConfig, cfgVars, otherVars >>

\* the termination step that polls the timeout as well
Terminate_PollsTimeout ==
  /\ pc = "terminate"
  /\ IF TimeoutReached(config, clock, startTime)
       THEN /\ terminationReason' = "timeout"
            /\ pc' = "finalize"
            /\ UNCHANGED << i, events >>
       ELSE IF decision.terminate
       THEN /\ terminationReason' = decision.reason
            /\ events' = Append(events, <<"converged", i>>)
            /\ pc' = "finalize"
            /\ UNCHANGED i
       ELSE /\ i' = i + 1
            /\ pc' = "loop"
            /\ UNCHANGED << terminationReason, events >>
  /\ UNCHANGED << config, options, clock, startTime, state, history,
                  finalEvaluation, context, actionResult, evaluation,
                  decision, error, outcome, result, calls, decisions, threw >>
  /\ UNCHANGED << startConfig, cfgVars, otherVars >>

\* if (shouldTerminate.terminate) { ...; break } and the loop's i++
Terminate ==
  /\ pc = "terminate"
  /\ IF decision.terminate
       THEN /\ terminationReason' = decision.reason
            /\ events' = Append(events, <<"converged", i>>)
            /\ pc' = "finalize"
            /\ UNCHANGED i
       ELSE /\ i' = i + 1
            /\ pc' = "loop"
            /\ UNCHANGED << terminationReason, events >>
  /\ UNCHANGED << config, options, clock, startTime, state, history,
                  finalEvaluation, context, actionResult, evaluation,
                  decision, error, outcome, result, calls, decisions, threw >>
  /\ UNCHANGED << startConfig, cfgVars, otherVars >>

\* the IterationResult with converged taken from the termination reason
IterationResult_ConvergedByReason(h, fe, reason, cfg) ==
  [ result |-> "finalized",
    iterations |-> Len(h),
    finalScore |-> fe.score,
    converged |-> reason \in {"converged", "early_stop"},
    terminationReason |-> reason,
    totalCost |-> TotalCost(h),
    history |-> h ]

\* the IterationResult built after finalize
IterationResult(h, fe, reason, cfg) ==
  [ result |-> "finalized",
    iterations |-> Len(h),
    finalScore |-> fe.score,
    converged |-> fe.score >= cfg.targetScore,
    terminationReason |-> reason,
    totalCost |-> TotalCost(h),
    history |-> h ]

\* result = await this.options.finalize(state, history), complete, return
Finalize ==
  /\ pc = "finalize"
  /\ calls' = Append(calls, [ phase |-> "finalize", iteration |-> Len(history),
                              state |-> state, context |-> NoContext ])
  /\ \/ /\ result' = IterationResult(history, finalEvaluation,
                                     terminationReason, config)
        /\ events' = Append(events, <<"complete">>)
        /\ outcome' = "resolved"
        /\ pc' = "done"
        /\ UNCHANGED << error, threw >>
     \/ /\ error' = "finalize"
        /\ threw' = TRUE
        /\ pc' = "catch"
        /\ UNCHANGED << result, events, outcome >>
  /\ UNCHANGED << config, options, clock, runLocals, decisions >>
  /\ UNCHANGED << startConfig, cfgVars, otherVars >>

\* the catch block without its error event
Catch_Silent ==
  /\ pc = "catch"
  /\ IF options.onError
       THEN /\ pc' = "onError"
            /\ UNCHANGED outcome
       ELSE /\ pc' = "done"
            /\ outcome' = "rejected"
  /\ UNCHANGED << config, options, clock, runLocals, error, result, calls,
                  decisions, threw, events >>
  /\ UNCHANGED << startConfig, cfgVars, otherVars >>

\* the catch block whose error event carries the loop index
Catch_LoopIndex ==
  /\ pc = "catch"
  /\ events' = Append(events, <<"error", i>>)
  /\ IF options.onError
       THEN /\ pc' = "onError"
            /\ UNCHANGED outcome
       ELSE /\ pc' = "done"
            /\ outcome' = "rejected"
  /\ UNCHANGED << config, options, clock, runLocals, error, result, calls,
                  decisions, threw >>
  /\ UNCHANGED << startConfig, cfgVars, otherVars >>

\* catch (error): the error event, then onError or rethrow
Catch ==
  /\ pc = "catch"
  /\ events' = Append(events, <<"error", Len(history)>>)
  /\ IF options.onError
       THEN /\ pc' = "onError"
            /\ UNCHANGED outcome
       ELSE /\ pc' = "done"
            /\ outcome' = "rejected"
  /\ UNCHANGED << config, options, clock, runLocals, error, result, calls,
                  decisions, threw >>
  /\ UNCHANGED << startConfig, cfgVars, otherVars >>

\* the fallback result that reports the loop's terminationReason variable
FallbackResult_LoopReason(h, fe) ==
  [ result |-> "fallback",
    iterations |-> Len(h),
    finalScore |-> fe.score,
    converged |-> FALSE,
    terminationReason |-> "max_iterations",
    totalCost |-> TotalCost(h),
    history |-> h ]

\* the result returned on the onError path
FallbackResult(h, fe) ==
  [ result |-> "fallback",
    iterations |-> Len(h),
    finalScore |-> fe.score,
    converged |-> FALSE,
    terminationReason |-> "manual_stop",
    totalCost |-> TotalCost(h),
    history |-> h ]

\* fallbackResult = await this.options.onError(err, state, context), return
OnError ==
  /\ pc = "onError"
  /\ calls' = Append(calls, [ phase |-> "onError", iteration |-> Len(history),
                              state |-> state, context |-> NoContext ])
  /\ \/ /\ result' = FallbackResult(history, finalEvaluation)
        /\ outcome' = "fallback"
        /\ UNCHANGED << error, threw >>
     \/ /\ error' = "onError"
        /\ threw' = TRUE
        /\ outcome' = "rejected"
        /\ UNCHANGED result
  /\ pc' = "done"
  /\ UNCHANGED << config, options, clock, runLocals, events, decisions >>
  /\ UNCHANGED << startConfig, cfgVars, otherVars >>

Next ==
  \/ Tick
  \/ RunStart
  \/ Initialize
  \/ LoopHead
  \/ Act
  \/ Evaluate
  \/ Record
  \/ Check
  \/ Transition
  \/ Terminate
  \/ Finalize
  \/ Catch
  \/ OnError

Spec == Init /\ [][Next]_vars

\* ------------------------------------------------------------ vocabulary
\* the evaluation on which decision d was taken
EvaluationOf(d) == history[d.iteration + 1].evaluation

DecisionSet == { decisions[n] : n \in 1..Len(decisions) }
CallSet == { calls[n] : n \in 1..Len(calls) }
EventSet == { events[n] : n \in 1..Len(events) }

\* the iterations in which transition has been invoked
TransitionIterations ==
  { c.iteration : c \in { x \in CallSet : x.phase = "transition" } }

\* the number of invocations of a callback
CallCount(phase) == Cardinality({ n \in 1..Len(calls) : calls[n].phase = phase })

\* the decision d is the one of the last iteration the run has executed
IsLastDecision(d) ==
  /\ d = decisions[Len(decisions)]
  /\ Len(history) = d.iteration + 1
  /\ i = d.iteration

\* C1: every termination decision is the first matching rule of the order
\* (1) shouldTerminate -> manual_stop, (2) score >= earlyStopScore ->
\* early_stop, (3) shouldContinue false -> converged, (4) score >=
\* targetScore with the floor met or waived -> converged, else continue;
\* and a run that resolves after a terminating decision reports its reason.
C1_TerminationPrecedence ==
  /\ \A d \in DecisionSet :
       LET ev == EvaluationOf(d)
           rule1 == d.custom
           rule2 == ev.score >= config.earlyStopScore
           rule3 == ~ev.shouldContinue
           rule4 == /\ ev.score >= config.targetScore
                    /\ \/ d.iteration >= config.minIterations - 1
                       \/ config.skipMinIterations
       IN  /\ rule1 => d.terminate /\ d.reason = "manual_stop"
           /\ ~rule1 /\ rule2 => d.terminate /\ d.reason = "early_stop"
           /\ ~rule1 /\ ~rule2 /\ rule3
                => d.terminate /\ d.reason = "converged"
           /\ ~rule1 /\ ~rule2 /\ ~rule3 /\ rule4
                => d.terminate /\ d.reason = "converged"
           /\ ~rule1 /\ ~rule2 /\ ~rule3 /\ ~rule4 => ~d.terminate
  /\ outcome = "resolved" /\ decisions # <<>>
       /\ decisions[Len(decisions)].terminate
       => result.terminationReason = decisions[Len(decisions)].reason

\* shouldTerminate returned true on a score that also reaches earlyStopScore
\* and the run resolved with manual_stop
C1_Witness ==
  /\ outcome = "resolved"
  /\ decisions # <<>>
  /\ decisions[Len(decisions)].custom
  /\ EvaluationOf(decisions[Len(decisions)]).score >= config.earlyStopScore
  /\ ~EvaluationOf(decisions[Len(decisions)]).shouldContinue
  /\ result.terminationReason = "manual_stop"

\* C2: in every evaluated iteration, transition is invoked exactly when
\* NOT((terminating OR isLastIteration) AND NOT alwaysRunTransition).
C2_TransitionGateRule ==
  \A d \in DecisionSet :
    LET terminating == d.terminate
        isLastIteration == d.iteration = config.maxIterations - 1
        expected ==
          ~((terminating \/ isLastIteration) /\ ~config.alwaysRunTransition)
    IN  /\ d.transition = expected
        /\ ~(pc = "transition" /\ d.iteration = i)
             => (d.iteration \in TransitionIterations <=> expected)

\* transition has run in an iteration that terminates the run
C2_Witness ==
  /\ pc = "terminate"
  /\ decision.terminate
  /\ config.alwaysRunTransition
  /\ i \in TransitionIterations
  /\ i < config.maxIterations - 1

\* C3: when finalize is called after the run stopped at iteration k (by a
\* terminating decision or as the last permitted iteration), transition has
\* been invoked exactly for 0..k-1 if alwaysRunTransition is false and for
\* 0..k if it is true, finalize receives the state of the last of these
\* transitions, and history holds iteration k.
C3_FinalizeStateLag ==
  \A c \in CallSet :
    c.phase = "finalize" /\ terminationReason # "timeout" /\ history # <<>>
      => LET k == Len(history) - 1
         IN  /\ history[k + 1].iteration = k
             /\ TransitionIterations =
                  IF config.alwaysRunTransition THEN 0..k ELSE 0..(k - 1)
             /\ c.state =
                  Some(IF config.alwaysRunTransition THEN k + 1 ELSE k)

\* a run converged at iteration 1 and finalize got the state of transition 0
C3_Witness ==
  /\ outcome = "resolved"
  /\ ~config.alwaysRunTransition
  /\ Len(history) = 2
  /\ result.terminationReason = "converged"
  /\ TransitionIterations = {0}
  /\ \E c \in CallSet : c.phase = "finalize" /\ c.state = Some(1)

QuietDecision(d) ==
  /\ ~d.custom
  /\ EvaluationOf(d).score < config.earlyStopScore
  /\ EvaluationOf(d).shouldContinue

\* C5: with skipMinIterations false, a decision on which rules 1 to 3 are
\* silent does not terminate below index minIterations - 1, so a run of such
\* decisions that resolves with converged has executed at least
\* minIterations iterations; with skipMinIterations true the first such
\* decision whose score reaches targetScore ends the run.
C5_MinIterationsFloor ==
  /\ ~config.skipMinIterations
       => /\ \A d \in DecisionSet :
               QuietDecision(d) /\ d.iteration < config.minIterations - 1
                 => ~d.terminate
          /\ outcome = "resolved" /\ result.terminationReason = "converged"
               /\ (\A d \in DecisionSet : QuietDecision(d))
               => result.iterations >= config.minIterations
  /\ config.skipMinIterations
       => \A d \in DecisionSet :
            QuietDecision(d) /\ EvaluationOf(d).score >= config.targetScore
              => d.terminate /\ d.reason = "converged" /\ IsLastDecision(d)

\* the target score was reached at index 0, below the floor, and the run
\* converged only at index 1
C5_Witness ==
  /\ outcome = "resolved"
  /\ result.terminationReason = "converged"
  /\ ~config.skipMinIterations
  /\ config.minIterations = 2
  /\ Len(history) = 2
  /\ \A d \in DecisionSet : QuietDecision(d)
  /\ history[1].evaluation.score >= config.targetScore

\* C6: a run that resolves through finalize without a terminating decision
\* and without a timeout has executed exactly maxIterations iterations and
\* reports max_iterations with converged = false.
C6_ExhaustionNotConverged ==
  outcome = "resolved"
    /\ (\A d \in DecisionSet : ~d.terminate)
    /\ result.terminationReason # "timeout"
    => /\ result.iterations = config.maxIterations
       /\ result.terminationReason = "max_iterations"
       /\ result.converged = FALSE

\* C7: a run in which no callback throws ends resolved, having called
\* finalize exactly once and act at most maxIterations times, with no
\* iteration after the first terminating decision.
C7_RunFinishes ==
  pc = "done" /\ ~threw
    => /\ outcome = "resolved"
       /\ CallCount("finalize") = 1
       /\ CallCount("act") <= config.maxIterations
       /\ \A d \in DecisionSet : d.terminate => IsLastDecision(d)

\* the number of iterations in which act and evaluate have both returned
EvaluatedCount ==
  Cardinality({ n \in 1..Len(events) : events[n][1] = "evaluation_complete" })

\* C8: every Result (from finalize or from onError) has iterations =
\* history.length = the number of iterations in which act and evaluate both
\* returned; history[j].iteration = j, and history only grows by appending.
C8_HistoryCountsIterations ==
  /\ [](/\ outcome \in {"resolved", "fallback"}
             => /\ result.iterations = Len(history)
                /\ result.history = history
                /\ Len(history) = EvaluatedCount
        /\ \A j \in 1..Len(history) : history[j].iteration = j - 1)
  /\ [][/\ Len(history') >= Len(history)
        /\ SubSeq(history', 1, Len(history)) = history]_vars

\* a fallback Result after a failure in the second iteration, whose first
\* iteration ran no transition
C8_Witness ==
  /\ outcome = "fallback"
  /\ Len(history) = 1
  /\ result.iterations = 1
  /\ CallCount("act") = 2

\* what a timeout check at the head of slot i must do when it fires
TimeoutStop ==
  /\ pc' = "finalize"
  /\ terminationReason' = "timeout"
  /\ events' = events
  /\ calls' = calls
  /\ history' = history

\* C9 as stated: whenever a timeout is configured and the elapsed time
\* exceeds it at the head of slot i, the run stops there with timeout.
C9_AnyConfiguredTimeout ==
  [][pc = "loop" /\ i < config.maxIterations /\ config.timeout # Absent
       /\ clock - startTime > config.timeout[1]
       => TimeoutStop]_vars

\* C9 amended: whenever a non-zero timeout is configured and the elapsed
\* time exceeds it at the head of slot i, the run emits no iteration_start
\* and invokes no act for slot i or later, goes on to finalize without
\* raising an exception, and resolves with timeout and iterations = i.
C9_NonZeroTimeout ==
  /\ [][pc = "loop" /\ i < config.maxIterations /\ config.timeout # Absent
          /\ config.timeout[1] # 0
          /\ clock - startTime > config.timeout[1]
          => TimeoutStop]_vars
  /\ [](terminationReason = "timeout"
          => /\ Len(history) = i
             /\ <<"iteration_start", i>> \notin EventSet
             /\ \A c \in CallSet : c.phase = "act" => c.iteration < i
             /\ error \in {"none", "finalize", "onError"}
             /\ outcome = "resolved"
                  => /\ result.terminationReason = "timeout"
                     /\ result.iterations = i
                     /\ CallCount("finalize") = 1)

\* the timeout fired at the head of slot 1, after one completed iteration
C9_Witness ==
  /\ outcome = "resolved"
  /\ result.terminationReason = "timeout"
  /\ result.iterations = 1
  /\ CallCount("act") = 1

\* C10: a Result built after finalize has finalScore = the score of the
\* last history entry (0 for an empty history) and converged =
\* (finalScore >= targetScore).
C10_FinalScoreAndConverged ==
  outcome = "resolved"
    => /\ result.finalScore =
            IF history = <<>> THEN 0
            ELSE history[Len(history)].evaluation.score
       /\ result.converged = (result.finalScore >= config.targetScore)

\* a run stopped by shouldContinue = false below the target score
C10_Witness ==
  /\ outcome = "resolved"
  /\ Len(history) = 2
  /\ result.terminationReason = "converged"
  /\ result.finalScore < config.targetScore
  /\ ~result.converged

\* C11: a Result whose terminationReason is converged has converged = true.
C11_ConvergedReasonSetsFlag ==
  outcome = "resolved" /\ result.terminationReason = "converged"
    => result.converged

\* the costs recorded in history h, added from the first entry on, an entry
\* without cost counting 0
RECURSIVE SumOfCosts(_)
SumOfCosts(h) ==
  IF h = <<>> THEN 0
  ELSE (IF Head(h).actionResult.cost = Absent
          THEN 0 ELSE Head(h).actionResult.cost[1])
       + SumOfCosts(Tail(h))

\* C12: the totalCost of every Result, from finalize or from onError, is the
\* sum of the costs of the history entries, an absent cost counting 0.
C12_TotalCostIsSum ==
  outcome \in {"resolved", "fallback"}
    => result.totalCost = SumOfCosts(history)

\* a fallback Result over two entries, the first with a cost and the second
\* without
C12_Witness ==
  /\ outcome = "fallback"
  /\ Len(history) = 2
  /\ history[1].actionResult.cost = Some(1)
  /\ history[2].actionResult.cost = Absent
  /\ result.totalCost = 1

\* the iterations whose transition has completed
TransitionsCompleted ==
  { e[2] : e \in { x \in EventSet : x[1] = "transition_complete" } }

\* the last state produced by initialize or by a completed transition
LastProducedState ==
  IF error = "initialize" THEN Absent
  ELSE IF TransitionsCompleted = {} THEN Some(0)
  ELSE Some(1 + CHOOSE m \in TransitionsCompleted :
                  \A n \in TransitionsCompleted : n <= m)

ErrorEventCount ==
  Cardinality({ n \in 1..Len(events) : events[n][1] = "error" })

\* C13: when something thrown inside run() is caught and onError is
\* supplied and returns, exactly one error event has been emitted, onError
\* has been invoked once with the last produced state and a context whose
\* iteration is history.length, and run resolves with onError's value,
\* manual_stop, converged = false and iterations = history.length.
C13_OnErrorFallback ==
  /\ pc = "done" /\ options.onError /\ error \notin {"none", "onError"}
       => outcome = "fallback"
  /\ outcome = "fallback"
       => /\ ErrorEventCount = 1
          /\ events[Len(events)] = <<"error", Len(history)>>
          /\ CallCount("onError") = 1
          /\ calls[Len(calls)].phase = "onError"
          /\ calls[Len(calls)].state = LastProducedState
          /\ calls[Len(calls)].iteration = Len(history)
          /\ result.result = "fallback"
          /\ result.terminationReason = "manual_stop"
          /\ result.converged = FALSE
          /\ result.iterations = Len(history)

\* transition threw in the second iteration: onError got the state of the
\* first transition and a context with iteration 2
C13_Witness ==
  /\ outcome = "fallback"
  /\ error = "transition"
  /\ Len(history) = 2
  /\ calls[Len(calls)].state = Some(1)
  /\ calls[Len(calls)].iteration = 2

\* C14: when something thrown inside run() is caught and onError is not
\* supplied, run emits one error event and rejects: no Result, no complete
\* event, and no finalize call after the failure.
C14_RethrowWithoutOnError ==
  pc = "done" /\ ~options.onError /\ error # "none"
    => /\ outcome = "rejected"
       /\ result = NoResult
       /\ ErrorEventCount = 1
       /\ events[Len(events)] = <<"error", Len(history)>>
       /\ <<"complete">> \notin EventSet
       /\ CallCount("onError") = 0
       /\ CallCount("finalize") = IF error = "finalize" THEN 1 ELSE 0

\* shouldTerminate threw in the first iteration and the run rejected
C14_Witness ==
  /\ pc = "done"
  /\ ~options.onError
  /\ error = "shouldTerminate"
  /\ outcome = "rejected"
  /\ Len(history) = 1

\* ------------------------------------------- configuration operations
\* this.config as a JavaScript object: every key holds an optional value,
\* since Object.assign can store undefined under any key.
ConfigKeys ==
  { "maxIterations", "targetScore", "earlyStopScore", "minIterations",
    "timeout", "verbose", "alwaysRunTransition", "skipMinIterations",
    "logger" }
OptionalKeys == { "timeout", "logger" }

\* the object holding the ResolvedConfig cfg, and back
ObjectOf(cfg) ==
  [ k \in ConfigKeys |-> IF k \in OptionalKeys THEN cfg[k] ELSE Some(cfg[k]) ]
PlainOf(obj) ==
  [ k \in ConfigKeys |-> IF k \in OptionalKeys THEN obj[k] ELSE obj[k][1] ]

\* a Partial<IterationConfig> argument: a key is Missing, or present with
\* an optional value (Key(Absent) is `key: undefined`)
Missing == <<>>
Key(x) == <<x>>
EmptyPartial == [ k \in ConfigKeys |-> Missing ]
\* p.k as JavaScript reads it
Read(p, k) == IF p[k] = Missing THEN Absent ELSE p[k][1]
\* the argument p read key by key, as the constructor does
AsConfig(p) == [ k \in ConfigKeys |-> Read(p, k) ]

\* `x ?? y` and `x > y` on optional numbers (a comparison with undefined
\* is false)
Nullish(x, y) == IF x = Absent THEN y ELSE x
JsGreater(x, y) == x # Absent /\ y # Absent /\ x[1] > y[1]

\* Object.assign with every own key of p, also those holding undefined
ObjectAssign(obj, p) ==
  [ k \in ConfigKeys |-> IF p[k] = Missing THEN obj[k] ELSE p[k][1] ]

\* updateConfig's validation that looks at the argument alone
updateConfigThrows_ArgumentOnly(obj, p) ==
  JsGreater(Read(p, "minIterations"), Read(p, "maxIterations"))

\* updateConfig's validation: TRUE when it throws
updateConfigThrows(obj, p) ==
  JsGreater(Nullish(Read(p, "minIterations"), obj.minIterations),
            Nullish(Read(p, "maxIterations"), obj.maxIterations))

\* { ...this.config, ...config } in withConfig
Spread(obj, p) ==
  [ k \in ConfigKeys |-> IF p[k] = Missing THEN obj[k] ELSE p[k][1] ]

\* the reset literals with a drifted earlyStopScore
resetConfigObject_Drifted ==
  [ maxIterations |-> Some(5), targetScore |-> Some(70),
    earlyStopScore |-> Some(90), minIterations |-> Some(1),
    timeout |-> Absent, verbose |-> Some(FALSE),
    alwaysRunTransition |-> Some(FALSE), skipMinIterations |-> Some(FALSE),
    logger |-> Absent ]

\* the object literal resetConfig assigns to this.config
resetConfigObject ==
  [ maxIterations |-> Some(5), targetScore |-> Some(70),
    earlyStopScore |-> Some(95), minIterations |-> Some(1),
    timeout |-> Absent, verbose |-> Some(FALSE),
    alwaysRunTransition |-> Some(FALSE), skipMinIterations |-> Some(FALSE),
    logger |-> Absent ]

\* getConfig returning this.config itself
getConfig_SameObject(obj) == [ alias |-> TRUE, value |-> obj ]

\* getConfig: { ...this.config }, a new object with the fields of
\* this.config (alias tells whether the object returned is this.config)
getConfig(obj) == [ alias |-> FALSE, value |-> obj ]

\* the arguments of the constructor, updateConfig and withConfig
IterationBounds == { Key(Some(n)) : n \in 0..MaxIter }
ConstructorArguments ==
  { [ EmptyPartial EXCEPT !.maxIterations = mx, !.minIterations = mn ] :
      mx \in {Missing} \cup IterationBounds,
      mn \in {Missing} \cup IterationBounds }
OtherFields ==
  [ EmptyPartial EXCEPT !.targetScore = Key(Some(0)),
                        !.earlyStopScore = Key(Some(200)),
                        !.timeout = Key(Some(1)),
                        !.verbose = Key(Some(TRUE)),
                        !.alwaysRunTransition = Key(Some(TRUE)),
                        !.skipMinIterations = Key(Some(TRUE)),
                        !.logger = Key(Some("logger")) ]
PartialArguments ==
  { [ EmptyPartial EXCEPT !.maxIterations = mx ] : mx \in IterationBounds }
    \cup
  { [ EmptyPartial EXCEPT !.minIterations = mn ] : mn \in IterationBounds }
    \cup
  { [ EmptyPartial EXCEPT !.maxIterations = mx, !.minIterations = mn ] :
      mx \in { Key(Some(0)), Key(Some(MaxIter)) },
      mn \in { Key(Some(0)), Key(Some(MaxIter)) } }
    \cup
  { [ EmptyPartial EXCEPT !.maxIterations = Key(Absent) ], OtherFields }

\* what a caller assigns to a field of the object getConfig returned
SnapshotWrites ==
  { << "maxIterations", Some(0) >>, << "targetScore", Some(100) >>,
    << "timeout", Some(1) >> }

Processors == 1..2

\* the run() variables, which no configuration call on an idle processor
\* touches
runVars ==
  << config, options, pc, clock, runLocals, error, outcome, result, events,
     calls, decisions, threw, startConfig >>

\* no processor constructed yet
InitConfig ==
  /\ config = Constructor(AsConfig(EmptyPartial))
  /\ options = [ shouldTerminate |-> FALSE, onError |-> FALSE ]
  /\ RunIdle
  /\ startConfig = config
  /\ procs = << Absent, Absent >>
  /\ snapshot = NoSnapshot
  /\ lastCall = NoCall
  /\ OthersIdle

\* new IterationProcessor(options, c): processor 1
Construct ==
  /\ procs[1] = Absent
  /\ \E c \in ConstructorArguments :
       /\ IF ConstructorThrows(AsConfig(c))
            THEN UNCHANGED procs
            ELSE procs' =
                   [ procs EXCEPT ![1] = Some(ObjectOf(Constructor(AsConfig(c)))) ]
       /\ lastCall' = [ op |-> "construct", target |-> 1, arg |-> c,
                        threw |-> ConstructorThrows(AsConfig(c)),
                        returned |-> 1,
                        before |-> Absent ]
  /\ snapshot' = NoSnapshot
  /\ UNCHANGED << runVars, otherVars >>

\* processor k: updateConfig(p)
UpdateConfig ==
  \E k \in Processors, p \in PartialArguments :
    /\ procs[k] # Absent
    /\ IF updateConfigThrows(procs[k][1], p)
         THEN UNCHANGED procs
         ELSE procs' = [ procs EXCEPT ![k] = Some(ObjectAssign(procs[k][1], p)) ]
    /\ lastCall' = [ op |-> "updateConfig", target |-> k, arg |-> p,
                     threw |-> updateConfigThrows(procs[k][1], p),
                     returned |-> k, before |-> procs[k] ]
    /\ snapshot' = NoSnapshot
    /\ UNCHANGED << runVars, otherVars >>

\* processor k: resetConfig()
ResetConfig ==
  \E k \in Processors :
    /\ procs[k] # Absent
    /\ procs' = [ procs EXCEPT ![k] = Some(resetConfigObject) ]
    /\ lastCall' = [ op |-> "resetConfig", target |-> k, arg |-> EmptyPartial,
                     threw |-> FALSE, returned |-> k, before |-> procs[k] ]
    /\ snapshot' = NoSnapshot
    /\ UNCHANGED << runVars, otherVars >>

\* processor 1: withConfig(p), whose result becomes processor 2
WithConfig ==
  \E p \in PartialArguments :
    /\ procs[1] # Absent
    /\ LET merged == Spread(procs[1][1], p)
       IN  /\ IF ConstructorThrows(merged)
                THEN UNCHANGED procs
                ELSE procs' =
                       [ procs EXCEPT ![2] = Some(ObjectOf(Constructor(merged))) ]
           /\ lastCall' = [ op |-> "withConfig", target |-> 1, arg |-> p,
                            threw |-> ConstructorThrows(merged),
                            returned |-> 2, before |-> procs[1] ]
    /\ snapshot' = NoSnapshot
    /\ UNCHANGED << runVars, otherVars >>

\* processor k: getConfig()
GetConfig ==
  \E k \in Processors :
    /\ procs[k] # Absent
    /\ snapshot' = [ of |-> k ] @@ getConfig(procs[k][1])
    /\ lastCall' = [ op |-> "getConfig", target |-> k, arg |-> EmptyPartial,
                     threw |-> FALSE, returned |-> k, before |-> procs[k] ]
    /\ UNCHANGED procs
    /\ UNCHANGED << runVars, otherVars >>

\* the caller assigns to a field of the object getConfig returned
WriteSnapshot ==
  \E w \in SnapshotWrites :
    /\ snapshot # NoSnapshot
    /\ LET written == [ snapshot.value EXCEPT ![w[1]] = w[2] ]
       IN  /\ snapshot' = [ snapshot EXCEPT !.value = written ]
           /\ procs' = IF snapshot.alias
                         THEN [ procs EXCEPT ![snapshot.of] = Some(written) ]
                         ELSE procs
    /\ lastCall' = [ op |-> "write", target |-> snapshot.of,
                     arg |-> EmptyPartial, threw |-> FALSE,
                     returned |-> snapshot.of,
                     before |-> procs[snapshot.of] ]
    /\ UNCHANGED << runVars, otherVars >>

NextConfig ==
  \/ Construct
  \/ UpdateConfig
  \/ ResetConfig
  \/ WithConfig
  \/ GetConfig
  \/ WriteSnapshot

SpecConfig == InitConfig /\ [][NextConfig]_vars

\* ----------------------------- configuration calls made while run() runs
\* run() reads this.config at every use, and a listener (called by emit) or
\* a phase callback may call updateConfig or resetConfig on the processor
\* that is running. The listener modelled here intervenes once per run.
LiveArguments ==
  { [ EmptyPartial EXCEPT !.maxIterations = Key(Some(1)) ],
    [ EmptyPartial EXCEPT !.alwaysRunTransition = Key(Some(TRUE)) ],
    [ EmptyPartial EXCEPT !.timeout = Key(Some(1)) ] }

\* the configurations of the processors whose runs are interrupted
LiveConfigInputs ==
  { c \in ConfigInputs :
      /\ c.maxIterations = Some(MaxIter)
      /\ c.minIterations = Absent
      /\ c.targetScore = Some(100)
      /\ c.timeout \in {Absent, Some(1)}
      /\ c.skipMinIterations = Absent }

InitLive ==
  /\ \E c \in LiveConfigInputs : config = Constructor(c)
  /\ options \in OptionInputs
  /\ RunIdle
  /\ startConfig = config
  /\ procs = << Absent, Absent >>
  /\ snapshot = NoSnapshot
  /\ lastCall = NoCall
  /\ OthersIdle

\* the running processor: updateConfig(p), accepted
LiveUpdateConfig ==
  /\ pc \notin {"idle", "done"}
  /\ config = startConfig
  /\ \E p \in LiveArguments :
       /\ ~updateConfigThrows(ObjectOf(config), p)
       /\ config' = PlainOf(ObjectAssign(ObjectOf(config), p))
       /\ config' # config
  /\ UNCHANGED << options, pc, clock, runLocals, error, outcome, result,
                  events, calls, decisions, threw, startConfig, cfgVars,
                  otherVars >>

\* the running processor: resetConfig()
LiveResetConfig ==
  /\ pc \notin {"idle", "done"}
  /\ config = startConfig
  /\ config' = PlainOf(resetConfigObject)
  /\ UNCHANGED << options, pc, clock, runLocals, error, outcome, result,
                  events, calls, decisions, threw, startConfig, cfgVars,
                  otherVars >>

NextLive ==
  \/ Next
  \/ LiveUpdateConfig
  \/ LiveResetConfig

SpecLive == InitLive /\ [][NextLive]_vars

\* ------------------------------------------------ configuration claims
\* the configuration processor k holds, as getConfig() returns it
ConfigOf(k) == getConfig(procs[k][1]).value
\* the configuration the target of the last call held before that call
ConfigBefore == getConfig(lastCall.before[1]).value

\* C15: a construction or an updateConfig whose merged minIterations
\* exceeds the merged maxIterations throws, and after a rejected
\* updateConfig every field getConfig() returns has the value it had before
\* the call.
C15_InvalidBoundsRejected ==
  /\ lastCall.op = "construct"
       => LET mn == Nullish(Read(lastCall.arg, "minIterations"),
                            Some(DefaultMinIterations))
              mx == Nullish(Read(lastCall.arg, "maxIterations"),
                            Some(DefaultMaxIterations))
          IN  /\ JsGreater(mn, mx) => lastCall.threw
              /\ lastCall.threw => procs[1] = Absent
  /\ lastCall.op = "updateConfig"
       => LET merged == ObjectAssign(lastCall.before[1], lastCall.arg)
          IN  /\ JsGreater(merged.minIterations, merged.maxIterations)
                   => lastCall.threw
              /\ lastCall.threw
                   => \A key \in ConfigKeys :
                        ConfigOf(lastCall.target)[key] = ConfigBefore[key]

\* an updateConfig that names maxIterations alone was rejected against the
\* minIterations the processor already held
C15_Witness ==
  /\ lastCall.op = "updateConfig"
  /\ lastCall.threw
  /\ lastCall.arg.minIterations = Missing
  /\ lastCall.arg.maxIterations # Missing
  /\ JsGreater(ConfigBefore.minIterations, Read(lastCall.arg, "maxIterations"))

\* C16: whatever calls were made, the configuration of every processor has
\* minIterations <= maxIterations.
C16_BoundsOrdered ==
  \A k \in Processors :
    procs[k] # Absent
      => /\ ConfigOf(k).minIterations # Absent
         /\ ConfigOf(k).maxIterations # Absent
         /\ ConfigOf(k).minIterations[1] <= ConfigOf(k).maxIterations[1]

\* C17: a run is governed by the configuration in force when it started:
\* every context, termination decision, transition gate and reported
\* outcome follows startConfig, whatever updateConfig or resetConfig did
\* meanwhile.
C17_RunUsesStartSnapshot ==
  /\ \A c \in CallSet :
       c.phase = "act" => c.context.maxIterations = startConfig.maxIterations
  /\ \A d \in DecisionSet :
       LET dec == checkTermination(d.custom, EvaluationOf(d), d.iteration,
                                   startConfig)
       IN  /\ d.terminate = dec.terminate
           /\ d.terminate => d.reason = dec.reason
           /\ d.transition = TransitionGate(d.iteration, dec, startConfig)
  /\ outcome = "resolved"
       => /\ result.terminationReason = "timeout"
               => Truthy(startConfig.timeout)
          /\ result.terminationReason = "max_iterations"
               => result.iterations = startConfig.maxIterations
          /\ result.converged
               = (result.finalScore >= startConfig.targetScore)

\* C18: getConfig() returns the current values in an object of its own: an
\* assignment to a field of the returned object leaves the configuration
\* of the processor, which later getConfig() calls return and later runs
\* read, as it was.
C18_GetConfigIsCopy ==
  /\ lastCall.op = "getConfig"
       => /\ snapshot.value = ConfigOf(lastCall.target)
          /\ procs[lastCall.target] = lastCall.before
  /\ lastCall.op = "write"
       => /\ procs[lastCall.target] = lastCall.before
          /\ \A key \in ConfigKeys :
               ConfigOf(lastCall.target)[key] = ConfigBefore[key]

\* a field of the returned object was assigned a value the processor does
\* not hold
C18_Witness ==
  /\ lastCall.op = "write"
  /\ \E key \in ConfigKeys :
       snapshot.value[key] # ConfigOf(lastCall.target)[key]

\* C19: withConfig(p) leaves the receiver as it was and returns a
\* processor that holds, for every key, p's value where p names the key and
\* the receiver's value otherwise; updateConfig and resetConfig on one
\* processor leave the other as it was.
C19_SiblingIsOverlay ==
  [][ /\ lastCall'.op = "withConfig" /\ ~lastCall'.threw
           => /\ procs'[1] = procs[1]
              /\ procs'[2] # Absent
              /\ \A key \in ConfigKeys :
                   IF lastCall'.arg[key] = Missing
                     THEN procs'[2][1][key] = procs[1][1][key]
                     ELSE procs'[2][1][key]
                            \in { lastCall'.arg[key][1], procs[1][1][key] }
      /\ lastCall'.op \in {"updateConfig", "resetConfig"}
           => \A k \in Processors :
                k # lastCall'.target => procs'[k] = procs[k]
    ]_vars

\* C20: resetConfig() leaves exactly maxIterations 5, targetScore 70,
\* earlyStopScore 95, minIterations 1, alwaysRunTransition false,
\* skipMinIterations false, verbose false, no timeout and no logger, and
\* returns the processor it was called on.
C20_ResetRestoresDefaults ==
  lastCall.op = "resetConfig"
    => /\ ~lastCall.threw
       /\ lastCall.returned = lastCall.target
       /\ ConfigOf(lastCall.target) =
            [ maxIterations |-> Some(5), targetScore |-> Some(70),
              earlyStopScore |-> Some(95), minIterations |-> Some(1),
              alwaysRunTransition |-> Some(FALSE),
              skipMinIterations |-> Some(FALSE), verbose |-> Some(FALSE),
              timeout |-> Absent, logger |-> Absent ]

\* resetConfig() was called on a processor that held no default at all
C20_Witness ==
  /\ lastCall.op = "resetConfig"
  /\ ConfigBefore.maxIterations \notin {Absent, Some(5)}
  /\ ConfigBefore.minIterations \notin {Absent, Some(1)}
  /\ ConfigBefore.targetScore # Some(70)
  /\ ConfigBefore.earlyStopScore # Some(95)
  /\ ConfigBefore.timeout # Absent
  /\ ConfigBefore.logger # Absent
  /\ ConfigBefore.verbose = Some(TRUE)
  /\ ConfigBefore.alwaysRunTransition = Some(TRUE)
  /\ ConfigBefore.skipMinIterations = Some(TRUE)

\* ------------------------------------------------------- event listeners
MaxSubscriptions == 3
ListenerIds == 1..2

\* the values of config.logger: none, a logger with an error method, a
\* logger with a log method only
LoggerValues == { Absent, Some("logger"), Some("logOnly") }

\* where emit's catch block sends the thrown value
ErrorSink(logger) ==
  IF logger = Some("logger") THEN "logger.error" ELSE "console.error"

\* emit without the try/catch: the first throwing listener ends the loop
RECURSIVE emit_NoCatch(_, _, _, _)
emit_NoCatch(ls, thr, logger, event) ==
  IF ls = <<>>
    THEN [ delivered |-> <<>>, sunk |-> <<>>, threw |-> FALSE ]
    ELSE IF Head(ls) \in thr
    THEN [ delivered |-> << << Head(ls), event >> >>, sunk |-> <<>>,
           threw |-> TRUE ]
    ELSE LET rest == emit_NoCatch(Tail(ls), thr, logger, event)
         IN  [ delivered |-> << << Head(ls), event >> >> \o rest.delivered,
               sunk |-> rest.sunk,
               threw |-> rest.threw ]

\* emit(event) over the listeners ls, those in thr throwing: the listener
\* calls made, the values handed to an error sink, and whether emit throws
RECURSIVE emit(_, _, _, _)
emit(ls, thr, logger, event) ==
  IF ls = <<>>
    THEN [ delivered |-> <<>>, sunk |-> <<>>, threw |-> FALSE ]
    ELSE LET rest == emit(Tail(ls), thr, logger, event)
         IN  [ delivered |-> << << Head(ls), event >> >> \o rest.delivered,
               sunk |-> (IF Head(ls) \in thr
                           THEN << << ErrorSink(logger), Head(ls) >> >>
                           ELSE <<>>) \o rest.sunk,
               threw |-> rest.threw ]

\* this.listeners.filter((l) => l !== listener)
Unsubscribed(ls, l) ==
  LET Other(x) == x # l IN SelectSeq(ls, Other)

\* the processors that get listeners before they run
ListenerConfigInputs ==
  { [ c EXCEPT !.logger = lg ] :
      c \in { d \in ConfigInputs :
                /\ d.maxIterations = Some(1)
                /\ d.minIterations = Absent
                /\ d.targetScore = Absent
                /\ d.earlyStopScore = Absent
                /\ d.timeout = Some(1)
                /\ d.alwaysRunTransition = Some(TRUE)
                /\ d.skipMinIterations = Absent },
      lg \in LoggerValues }

InitListeners ==
  /\ \E c \in ListenerConfigInputs : config = Constructor(c)
  /\ options = [ shouldTerminate |-> FALSE, onError |-> TRUE ]
  /\ RunIdle
  /\ startConfig = config
  /\ procs = << Absent, Absent >>
  /\ snapshot = NoSnapshot
  /\ lastCall = NoCall
  /\ listeners = <<>>
  /\ handles = <<>>
  /\ throwers \in SUBSET ListenerIds
  /\ stream = NoStream
  /\ util = NoUtil

\* on(listener), before the run
On ==
  /\ pc = "idle"
  /\ Len(handles) < MaxSubscriptions
  /\ \E l \in ListenerIds :
       /\ listeners' = Append(listeners, l)
       /\ handles' = Append(handles, [ listener |-> l, called |-> FALSE ])
  /\ UNCHANGED << runVars, cfgVars, throwers, stream, util >>

\* a call of the function on() returned, before the run
Unsubscribe ==
  /\ pc = "idle"
  /\ \E h \in 1..Len(handles) :
       /\ listeners' = Unsubscribed(listeners, handles[h].listener)
       /\ handles' = [ handles EXCEPT ![h].called = TRUE ]
  /\ UNCHANGED << runVars, cfgVars, throwers, stream, util >>

NextListeners ==
  \/ On
  \/ Unsubscribe
  \/ Next

SpecListeners == InitListeners /\ [][NextListeners]_vars

\* what emit did with the n-th event of the run: the listeners do not
\* change while run() is in progress
Emitted(n) == emit(listeners, throwers, config.logger, events[n])

\* the listeners that throw, in subscription order
ThrowingListeners ==
  LET Throws(l) == l \in throwers IN SelectSeq(listeners, Throws)

\* C21: for every event of a run, a throwing listener keeps no listener
\* subscribed after it from receiving the event, the thrown value goes to
\* the logger's error method if there is one and to console.error
\* otherwise, and emit returns normally; a run whose phases and log calls
\* all return ends with the complete event and resolves.
C21_ThrowingListenerIsolated ==
  /\ \A n \in 1..Len(events) :
       /\ ~Emitted(n).threw
       /\ Emitted(n).delivered =
            [ k \in 1..Len(listeners) |-> << listeners[k], events[n] >> ]
       /\ Emitted(n).sunk =
            [ k \in 1..Len(ThrowingListeners) |->
                << IF config.logger = Some("logger")
                     THEN "logger.error" ELSE "console.error",
                   ThrowingListeners[k] >> ]
  /\ pc = "done" /\ error = "none"
       => /\ outcome = "resolved"
          /\ events[Len(events)] = <<"complete">>

\* a run resolved although the first of two listeners threw on every event,
\* the second one having received each of them
C21_Witness ==
  /\ pc = "done"
  /\ outcome = "resolved"
  /\ Len(listeners) >= 2
  /\ listeners[1] \in throwers
  /\ listeners[2] \notin throwers
  /\ config.logger = Some("logger")
  /\ << listeners[2], <<"complete">> >>
       = Emitted(Len(events)).delivered[2]
  /\ << "logger.error", listeners[1] >> = Emitted(Len(events)).sunk[1]

\* C22: a call of the function on(listener) returned leaves that listener
\* unsubscribed, a second call of the same function changes nothing, and
\* the other listeners stay subscribed in their order.
C22_UnsubscribeIdempotent ==
  [][ pc = "idle" /\ pc' = "idle" /\ Len(handles') = Len(handles)
        => \E h \in 1..Len(handles) :
             LET l == handles[h].listener
             IN  /\ handles' = [ handles EXCEPT ![h].called = TRUE ]
                 /\ \A n \in 1..Len(listeners') : listeners'[n] # l
                 /\ handles[h].called => listeners' = listeners
                 /\ Unsubscribed(listeners', l) = Unsubscribed(listeners, l)
    ]_vars

\* --------------------------------------------- events and calls of a run
\* the events of the first n iterations of a run whose iterations all
\* reached their termination decision
RECURSIVE IterationEvents(_)
IterationEvents(n) ==
  IF n = 0
    THEN <<>>
    ELSE IterationEvents(n - 1)
           \o << <<"iteration_start", n - 1>>, <<"action_complete", n - 1>>,
                 <<"evaluation_complete", n - 1>>,
                 <<"iteration_complete", n - 1>> >>
           \o (IF (n - 1) \in TransitionIterations
                 THEN << <<"transition_complete", n - 1>> >> ELSE <<>>)
           \o (IF n <= Len(decisions) /\ decisions[n].terminate
                 THEN << <<"converged", n - 1>> >> ELSE <<>>)

\* C23: a run in which no callback threw has emitted start, then for each
\* executed iteration i iteration_start(i), action_complete(i),
\* evaluation_complete(i), iteration_complete(i), transition_complete(i)
\* iff transition was invoked in i, converged(i) if i terminated the run,
\* and complete once, as the last event.
C23_EventOrder ==
  pc = "done" /\ ~threw
    => events = << <<"start">> >> \o IterationEvents(Len(history))
                  \o << <<"complete">> >>

ConvergedCount ==
  Cardinality({ n \in 1..Len(events) : events[n][1] = "converged" })

StopReasons == { "manual_stop", "early_stop", "converged" }

\* C24 as stated: converged is emitted at most once, in a run that resolves
\* exactly when its reason is manual_stop, early_stop or converged, and in
\* no run that took the error path.
C24_NoConvergedOnErrorPath ==
  /\ ConvergedCount <= 1
  /\ outcome = "resolved"
       => (ConvergedCount = 1 <=> result.terminationReason \in StopReasons)
  /\ error # "none" => ConvergedCount = 0

\* C24: converged is emitted at most once, for the iteration whose
\* termination decision stopped the loop and in the step that sets the
\* termination reason; a run that resolves has emitted it exactly when its
\* reason is manual_stop, early_stop or converged; a run that took the
\* error path has emitted it exactly when the failure came after the loop
\* had stopped through a decision, that is in finalize.
C24_ConvergedOnLoopDecision ==
  /\ ConvergedCount <= 1
  /\ \A e \in EventSet :
       e[1] = "converged"
         => /\ decisions # <<>>
            /\ decisions[Len(decisions)].terminate
            /\ decisions[Len(decisions)].iteration = e[2]
            /\ terminationReason = decisions[Len(decisions)].reason
            /\ terminationReason \in StopReasons
  /\ outcome = "resolved"
       => (ConvergedCount = 1 <=> result.terminationReason \in StopReasons)
  /\ pc = "done"
       => (ConvergedCount = 1
             <=> /\ CallCount("finalize") = 1
                 /\ decisions # <<>>
                 /\ decisions[Len(decisions)].terminate)

\* finalize threw after the loop had stopped on a decision: converged was
\* emitted and the run rejected
C24_Witness ==
  /\ pc = "done"
  /\ outcome = "rejected"
  /\ error = "finalize"
  /\ ConvergedCount = 1
  /\ terminationReason = "early_stop"

\* the call b may directly follow the call a within one run
MayFollow(a, b) ==
  \/ b.phase = "onError"
  \/ /\ a.phase = "initialize"
     /\ \/ b.phase = "act" /\ b.iteration = 0
        \/ b.phase = "finalize"
  \/ /\ a.phase = "act"
     /\ b.phase = "evaluate" /\ b.iteration = a.iteration
  \/ /\ a.phase = "evaluate"
     /\ \/ b.phase \in {"shouldTerminate", "transition"}
             /\ b.iteration = a.iteration
        \/ b.phase = "act" /\ b.iteration = a.iteration + 1
        \/ b.phase = "finalize"
  \/ /\ a.phase = "shouldTerminate"
     /\ \/ b.phase = "transition" /\ b.iteration = a.iteration
        \/ b.phase = "act" /\ b.iteration = a.iteration + 1
        \/ b.phase = "finalize"
  \/ /\ a.phase = "transition"
     /\ \/ b.phase = "act" /\ b.iteration = a.iteration + 1
        \/ b.phase = "finalize"

\* C25: the callbacks of a run are called one after the other, each call
\* having returned before the next is made: initialize first and once, in
\* every iteration act, then evaluate, then transition, act of iteration
\* i+1 only after the calls of iteration i, finalize after the last
\* iteration and at most once.
C25_PhasesInSequence ==
  /\ calls # <<>> => calls[1].phase = "initialize"
  /\ CallCount("initialize") <= 1
  /\ CallCount("finalize") <= 1
  /\ \A n \in 1..(Len(calls) - 1) :
       /\ MayFollow(calls[n], calls[n + 1])
       /\ calls[n].phase # "onError"
  /\ \A n \in 1..Len(calls) :
       calls[n].phase = "finalize"
         => \A m \in (n + 1)..Len(calls) : calls[m].phase = "onError"

\* two full iterations with transition in both, then finalize
C25_Witness ==
  /\ outcome = "resolved"
  /\ CallCount("act") = 2
  /\ CallCount("evaluate") = 2
  /\ CallCount("transition") = 2
  /\ CallCount("finalize") = 1

\* the iterations that have started
StartedIterations ==
  { e[2] : e \in { x \in EventSet : x[1] = "iteration_start" } }

\* C29: only the check at the head of an iteration slot makes a run end with
\* timeout: such a run has completed every iteration it started, none of
\* them terminating; a run that resolves after an iteration that terminated
\* it, or after the last permitted iteration, reports that iteration's
\* reason or max_iterations however much time has passed, and every
\* iteration it started has its history entry, its decision and its gated
\* transition.
C29_TimeoutOnlyBetweenIterations ==
  /\ terminationReason = "timeout"
       => /\ Truthy(config.timeout)
          /\ Cardinality(StartedIterations) = Len(history)
          /\ Len(decisions) = Len(history)
          /\ Len(history) < config.maxIterations
          /\ \A d \in DecisionSet : ~d.terminate
  /\ outcome = "resolved"
       => /\ StartedIterations = 0..(Len(history) - 1)
          /\ Len(decisions) = Len(history)
          /\ \A d \in DecisionSet :
               d.transition <=> d.iteration \in TransitionIterations
          /\ decisions # <<>> /\ decisions[Len(decisions)].terminate
               => result.terminationReason
                    = decisions[Len(decisions)].reason
          /\ Len(history) = config.maxIterations
               /\ (decisions = <<>> \/ ~decisions[Len(decisions)].terminate)
               => result.terminationReason = "max_iterations"

\* the timeout passed while the last permitted iteration was running, and
\* the run resolved with max_iterations
C29_Witness ==
  /\ outcome = "resolved"
  /\ Truthy(config.timeout)
  /\ clock - startTime > config.timeout[1]
  /\ Len(history) = config.maxIterations
  /\ Len(history) = MaxIter
  /\ result.terminationReason = "max_iterations"

\* the state the n-th call must receive: what the latest transition call
\* before it returned, or what initialize returned
StateBefore(n) ==
  LET earlier == { m \in 1..(n - 1) : calls[m].phase = "transition" }
  IN  IF earlier = {}
        THEN Some(0)
        ELSE Some(calls[CHOOSE m \in earlier :
                          \A k \in earlier : k <= m].iteration + 1)

\* C30: act, evaluate, transition and finalize receive the value the most
\* recent completed transition returned, or the value initialize returned
\* if there was none, and run() assigns its state nowhere but from the
\* return value of initialize or of a transition.
C30_StateOnlyFromTransition ==
  /\ [](\A n \in 1..Len(calls) :
          calls[n].phase \in {"act", "evaluate", "transition", "finalize"}
            => calls[n].state = StateBefore(n))
  /\ [][state' # state => pc \in {"initialize", "transition"}]_vars

\* finalize received the state the second transition returned
C30_Witness ==
  /\ outcome = "resolved"
  /\ CallCount("transition") = 2
  /\ \E c \in CallSet : c.phase = "finalize" /\ c.state = Some(2)
  /\ \E c \in CallSet :
       c.phase = "evaluate" /\ c.iteration = 1 /\ c.state = Some(1)

\* ------------------------------------- StreamingIteratoP.executeStream
\* the IterationConfig handed to the StreamingIteratoP constructor
StreamOptionInputs == ConfigInputs

\* the callbacks handed to it: transition and finalize are required by
\* IterationOptions, shouldTerminate and onError are optional
StreamConfigInputs ==
  [ transition : {TRUE}, finalize : {TRUE}, shouldTerminate : BOOLEAN,
    onError : BOOLEAN ]

\* what act resolves with
StreamActionResults == [ data : {"data"}, cost : {Absent, Some(1)} ]

\* the convergence test that lets skipMinIterations waive the floor for
\* shouldContinue = false too
StreamConverged_SkipWaivesAll(ev, n, skip, target, floor) ==
  IF skip /\ ev.score >= target THEN TRUE
  ELSE IF ev.score >= target /\ n >= floor THEN TRUE
  ELSE IF ~ev.shouldContinue
            /\ (n >= floor \/ skip) THEN TRUE
  ELSE FALSE

\* the convergence test with the floor of run() applied to the 1-based
\* iteration number shifted once more
StreamConverged_ShiftedFloor(ev, n, skip, target, floor) ==
  IF skip /\ ev.score >= target THEN TRUE
  ELSE IF ev.score >= target /\ n - 1 >= floor THEN TRUE
  ELSE IF ~ev.shouldContinue /\ n - 1 >= floor THEN TRUE
  ELSE FALSE

\* the if / else if chain that sets converged
StreamConverged(ev, n, skip, target, floor) ==
  IF skip /\ ev.score >= target THEN TRUE
  ELSE IF ev.score >= target /\ n >= floor THEN TRUE
  ELSE IF ~ev.shouldContinue /\ n >= floor THEN TRUE
  ELSE FALSE

\* a StreamingIteratoP has been constructed, executeStream not yet called
InitStream ==
  /\ config = Constructor(AsConfig(EmptyPartial))
  /\ options = [ shouldTerminate |-> FALSE, onError |-> FALSE ]
  /\ RunIdle
  /\ startConfig = config
  /\ procs = << Absent, Absent >>
  /\ snapshot = NoSnapshot
  /\ lastCall = NoCall
  /\ listeners = <<>>
  /\ handles = <<>>
  /\ throwers = {}
  /\ util = NoUtil
  /\ \E o \in StreamOptionInputs, c \in StreamConfigInputs :
       stream = [ pc |-> "start", config |-> c, options |-> o,
                  clock |-> 0, startTime |-> 0,
                  maxIterations |-> 0, minIterations |-> 0,
                  targetScore |-> 0, skipMinIterations |-> FALSE,
                  timeout |-> Absent,
                  currentState |-> Absent, iteration |-> 0,
                  converged |-> FALSE, history |-> <<>>, states |-> <<>>,
                  evaluation |-> InitialEvaluation,
                  actionResult |-> NoActionResult,
                  calls |-> <<>>, outcome |-> "none",
                  rejection |-> Absent,
                  returned |-> Absent, yielded |-> Absent ]

\* everything but the stream execution
notStream ==
  << runVars, cfgVars, lsnVars, util >>

\* a catch block that resolves with the snapshots computed so far
StreamRejects_ReturnsSnapshots(phase) ==
  [ stream EXCEPT !.calls = Append(@, [ phase |-> phase,
                                          iteration |-> stream.iteration,
                                          state |-> stream.currentState ]),
                  !.pc = "done",
                  !.outcome = "rejected",
                  !.rejection = Some(phase),
                  !.returned = Some(stream.states) ]

\* a callback of executeStream throws: catch (error) { throw error }
\* rejects the promise with the error of that callback
StreamRejects(phase) ==
  [ stream EXCEPT !.calls = Append(@, [ phase |-> phase,
                                          iteration |-> stream.iteration,
                                          state |-> stream.currentState ]),
                  !.pc = "done",
                  !.outcome = "rejected",
                  !.rejection = Some(phase) ]

\* Date.now() advances while act is pending
StreamTick ==
  /\ stream.pc = "act"
  /\ stream.timeout # Absent
  /\ stream.clock < MaxTime
  /\ stream' = [ stream EXCEPT !.clock = @ + 1 ]
  /\ UNCHANGED notStream

\* executeStream up to the loop: initialize, the resolved settings, the
\* initial state pushed
StreamInitialize ==
  /\ stream.pc = "start"
  /\ \/ stream' =
          [ stream EXCEPT
              !.calls = Append(@, [ phase |-> "initialize", iteration |-> 0,
                                    state |-> Absent ]),
              !.currentState = Some(0),
              !.maxIterations = Coalesce(stream.options.maxIterations, 5),
              !.minIterations = Coalesce(stream.options.minIterations, 1),
              !.targetScore = Coalesce(stream.options.targetScore, 70),
              !.skipMinIterations =
                 Coalesce(stream.options.skipMinIterations, FALSE),
              !.startTime = stream.clock,
              !.timeout = stream.options.timeout,
              !.states = Append(@, [ iteration |-> 0, state |-> Some(0),
                                     converged |-> FALSE,
                                     timedOut |-> FALSE,
                                     evaluation |-> Absent,
                                     actionResult |-> Absent ]),
              !.pc = "loop" ]
     \/ stream' = StreamRejects("initialize")
  /\ UNCHANGED notStream

\* the loop head whose timeout snapshot carries the count of completed
\* iterations
StreamLoopHead_CompletedCount ==
  /\ stream.pc = "loop"
  /\ stream' =
       IF ~(stream.iteration < stream.maxIterations /\ ~stream.converged)
         THEN [ stream EXCEPT !.pc = "finalize" ]
       ELSE IF Truthy(stream.timeout)
                 /\ stream.clock - stream.startTime > stream.timeout[1]
         THEN [ stream EXCEPT
                  !.states = Append(@, [ iteration |-> stream.iteration,
                                         state |-> stream.currentState,
                                         converged |-> FALSE,
                                         timedOut |-> TRUE,
                                         evaluation |-> Absent,
                                         actionResult |-> Absent ]),
                  !.pc = "finalize" ]
       ELSE [ stream EXCEPT !.iteration = @ + 1, !.pc = "act" ]
  /\ UNCHANGED notStream

\* the while condition, the timeout check and iteration++
StreamLoopHead ==
  /\ stream.pc = "loop"
  /\ stream' =
       IF ~(stream.iteration < stream.maxIterations /\ ~stream.converged)
         THEN [ stream EXCEPT !.pc = "finalize" ]
       ELSE IF Truthy(stream.timeout)
                 /\ stream.clock - stream.startTime > stream.timeout[1]
         THEN [ stream EXCEPT
                  !.states = Append(@, [ iteration |-> stream.iteration + 1,
                                         state |-> stream.currentState,
                                         converged |-> FALSE,
                                         timedOut |-> TRUE,
                                         evaluation |-> Absent,
                                         actionResult |-> Absent ]),
                  !.pc = "finalize" ]
       ELSE [ stream EXCEPT !.iteration = @ + 1, !.pc = "act" ]
  /\ UNCHANGED notStream

\* actionResult = await this.config.act(currentState, context)
StreamAct ==
  /\ stream.pc = "act"
  /\ \/ \E ar \in StreamActionResults :
          stream' =
            [ stream EXCEPT
                !.calls = Append(@, [ phase |-> "act",
                                      iteration |-> stream.iteration,
                                      state |-> stream.currentState ]),
                !.actionResult = ar,
                !.pc = "evaluate" ]
     \/ stream' = StreamRejects("act")
  /\ UNCHANGED notStream

\* evaluation = await this.config.evaluate(...), the history entry and the
\* convergence test
StreamEvaluate ==
  /\ stream.pc = "evaluate"
  /\ \/ \E ev \in Evaluations :
          stream' =
            [ stream EXCEPT
                !.calls = Append(@, [ phase |-> "evaluate",
                                      iteration |-> stream.iteration,
                                      state |-> stream.currentState ]),
                !.evaluation = ev,
                !.history = Append(@, HistoryEntry(stream.iteration,
                                                   stream.actionResult, ev)),
                !.converged =
                   StreamConverged(ev, stream.iteration,
                                   stream.skipMinIterations,
                                   stream.targetScore, stream.minIterations),
                !.pc = "transition" ]
     \/ stream' = StreamRejects("evaluate")
  /\ UNCHANGED notStream

\* the state entry numbered from 0
StreamState_ZeroBased(st) ==
  [ iteration |-> stream.iteration - 1, state |-> st,
    converged |-> stream.converged, timedOut |-> FALSE,
    evaluation |-> Some(stream.evaluation),
    actionResult |-> Some(stream.actionResult) ]

\* the iteration's state entry
StreamState(st) ==
  [ iteration |-> stream.iteration, state |-> st,
    converged |-> stream.converged, timedOut |-> FALSE,
    evaluation |-> Some(stream.evaluation),
    actionResult |-> Some(stream.actionResult) ]

\* the transition step that runs transition for the converged iteration too
StreamTransition_Always ==
  /\ stream.pc = "transition"
  /\ \/ stream' =
          [ stream EXCEPT
              !.calls = Append(@, [ phase |-> "transition",
                                    iteration |-> stream.iteration,
                                    state |-> stream.currentState ]),
              !.currentState = Some(stream.iteration),
              !.states = Append(@, StreamState(Some(stream.iteration))),
              !.pc = "loop" ]
     \/ stream' = StreamRejects("transition")
  /\ UNCHANGED notStream

\* if (!converged && this.config.transition) currentState = await
\* transition(...); the state entry; break if converged
StreamTransition ==
  /\ stream.pc = "transition"
  /\ IF ~stream.converged /\ stream.config.transition
       THEN \/ stream' =
                 [ stream EXCEPT
                     !.calls = Append(@, [ phase |-> "transition",
                                           iteration |-> stream.iteration,
                                           state |-> stream.currentState ]),
                     !.currentState = Some(stream.iteration),
                     !.states = Append(@, StreamState(Some(stream.iteration))),
                     !.pc = "loop" ]
            \/ stream' = StreamRejects("transition")
       ELSE stream' =
              [ stream EXCEPT
                  !.states = Append(@, StreamState(stream.currentState)),
                  !.pc = "loop" ]
  /\ UNCHANGED notStream

\* await this.config.finalize(currentState, history); return the stream
StreamFinalize ==
  /\ stream.pc = "finalize"
  /\ IF stream.config.finalize
       THEN \/ stream' =
                 [ stream EXCEPT
                     !.calls = Append(@, [ phase |-> "finalize",
                                           iteration |-> stream.iteration,
                                           state |-> stream.currentState ]),
                     !.pc = "done",
                     !.outcome = "resolved",
                     !.returned = Some(stream.states) ]
            \/ stream' = StreamRejects("finalize")
       ELSE stream' = [ stream EXCEPT !.pc = "done", !.outcome = "resolved",
                                      !.returned = Some(stream.states) ]
  /\ UNCHANGED notStream

\* the map and filter that leave out the evaluation of a converged state
evaluationStream_UnconvergedOnly(states) ==
  LET kept == SelectSeq(states,
                        LAMBDA st : st.evaluation # Absent /\ ~st.converged)
  IN  [ k \in 1..Len(kept) |-> kept[k].evaluation[1] ]

\* stream.map(state => state.evaluation).filter(e => e !== undefined)
evaluationStream(states) ==
  LET mapped == [ k \in 1..Len(states) |-> states[k].evaluation ]
      kept == SelectSeq(mapped, LAMBDA e : e # Absent)
  IN  [ k \in 1..Len(kept) |-> kept[k][1] ]

\* stream.map(state => state.actionResult).filter(r => r !== undefined)
actionStream(states) ==
  LET mapped == [ k \in 1..Len(states) |-> states[k].actionResult ]
      kept == SelectSeq(mapped, LAMBDA r : r # Absent)
  IN  [ k \in 1..Len(kept) |-> kept[k][1] ]

\* evaluationStream(input): its executeStream call has resolved
EvaluationStream ==
  /\ stream.pc = "done"
  /\ stream.returned # Absent
  /\ stream.yielded = Absent
  /\ stream' = [ stream EXCEPT
                   !.yielded = Some([ method |-> "evaluationStream",
                                      items |->
                                        evaluationStream(stream.returned[1]) ]) ]
  /\ UNCHANGED notStream

\* actionStream(input): its executeStream call has resolved
ActionStream ==
  /\ stream.pc = "done"
  /\ stream.returned # Absent
  /\ stream.yielded = Absent
  /\ stream' = [ stream EXCEPT
                   !.yielded = Some([ method |-> "actionStream",
                                      items |->
                                        actionStream(stream.returned[1]) ]) ]
  /\ UNCHANGED notStream

NextStream ==
  \/ StreamTick
  \/ StreamInitialize
  \/ StreamLoopHead
  \/ StreamAct
  \/ StreamEvaluate
  \/ StreamTransition
  \/ StreamFinalize
  \/ EvaluationStream
  \/ ActionStream

SpecStream == InitStream /\ [][NextStream]_vars

\* the state entries executeStream pushed for evaluated iterations
IterationStates ==
  { stream.states[k] : k \in { j \in 1..Len(stream.states) :
                                 stream.states[j].evaluation # Absent } }

\* the iterations in which executeStream called the callback
StreamCalls(phase) ==
  { stream.calls[k].iteration :
      k \in { j \in 1..Len(stream.calls) : stream.calls[j].phase = phase } }

\* C26: executeStream marks iteration n (counted from 1) converged exactly
\* when (skipMinIterations and score >= targetScore) or (score >=
\* targetScore and n >= minIterations) or (shouldContinue false and n >=
\* minIterations), with the defaults 70, 1 and false; earlyStopScore and
\* shouldTerminate play no part.
C26_StreamConvergenceRule ==
  /\ \A st \in IterationStates :
       LET ev == st.evaluation[1]
           n == st.iteration
           targetScore == Coalesce(stream.options.targetScore, 70)
           minIterations == Coalesce(stream.options.minIterations, 1)
           skipMinIterations ==
             Coalesce(stream.options.skipMinIterations, FALSE)
       IN  /\ n >= 1
           /\ ev = stream.history[n].evaluation
           /\ st.converged
                <=> \/ skipMinIterations /\ ev.score >= targetScore
                    \/ ev.score >= targetScore /\ n >= minIterations
                    \/ ~ev.shouldContinue /\ n >= minIterations
  /\ StreamCalls("shouldTerminate") = {}

\* below the floor, shouldContinue = false did not converge although
\* skipMinIterations is set, a score of 95 reached the default
\* earlyStopScore and shouldTerminate was supplied
C26_Witness ==
  /\ stream.options.skipMinIterations = Some(TRUE)
  /\ stream.options.earlyStopScore = Absent
  /\ stream.config.shouldTerminate
  /\ \E st \in IterationStates :
       /\ st.iteration = 1
       /\ st.iteration < stream.minIterations
       /\ ~st.evaluation[1].shouldContinue
       /\ st.evaluation[1].score = 95
       /\ ~st.converged

\* C27: executeStream calls transition in every iteration that is not
\* marked converged, the one numbered maxIterations included, and never in
\* the converged one; finalize receives the state of the last transition,
\* which after maxIterations iterations without convergence is that of
\* transition number maxIterations, whatever alwaysRunTransition is.
C27_StreamTransitionUnlessConverged ==
  /\ \A st \in IterationStates :
       st.iteration \in StreamCalls("transition") <=> ~st.converged
  /\ \A k \in 1..Len(stream.calls) :
       stream.calls[k].phase = "finalize"
         => /\ stream.calls[k].state
                 = Some(Cardinality(StreamCalls("transition")))
            /\ (/\ Len(stream.history) = stream.maxIterations
                /\ \A st \in IterationStates : ~st.converged)
                 => stream.calls[k].state = Some(stream.maxIterations)

\* maxIterations iterations without convergence and without
\* alwaysRunTransition: finalize received the state of the last transition
C27_Witness ==
  /\ stream.outcome = "resolved"
  /\ stream.options.alwaysRunTransition = Absent
  /\ stream.maxIterations = MaxIter
  /\ Len(stream.history) = MaxIter
  /\ \A st \in IterationStates : ~st.converged
  /\ MaxIter \in StreamCalls("transition")
  /\ \E k \in 1..Len(stream.calls) :
       /\ stream.calls[k].phase = "finalize"
       /\ stream.calls[k].state = Some(MaxIter)

\* ------------------------------------------------------ createEvaluation
\* how far below 0 and above 100 the scores handed to createEvaluation go
ScoreSpan == 20

MathMax(a, b) == IF a >= b THEN a ELSE b
MathMin(a, b) == IF a <= b THEN a ELSE b

\* the arguments of createEvaluation
ScoreArguments == (0 - ScoreSpan)..(100 + ScoreSpan)
EvaluationOptions ==
  [ shouldContinue : {Absent, Some(TRUE), Some(FALSE)},
    feedback : {Absent, Some("feedback")} ]

\* createEvaluation with the upper limit left out
createEvaluation_NoCeiling(score, opts) ==
  [ score |-> MathMax(0, score),
    shouldContinue |-> Coalesce(opts.shouldContinue, score < 70),
    feedback |-> Coalesce(opts.feedback, "") ]

\* createEvaluation(score, options)
createEvaluation(score, opts) ==
  [ score |-> MathMax(0, MathMin(100, score)),
    shouldContinue |-> Coalesce(opts.shouldContinue, score < 70),
    feedback |-> Coalesce(opts.feedback, "") ]

\* a call of createEvaluation is about to be made
InitUtils ==
  /\ config = Constructor(AsConfig(EmptyPartial))
  /\ options = [ shouldTerminate |-> FALSE, onError |-> FALSE ]
  /\ RunIdle
  /\ startConfig = config
  /\ procs = << Absent, Absent >>
  /\ snapshot = NoSnapshot
  /\ lastCall = NoCall
  /\ listeners = <<>>
  /\ handles = <<>>
  /\ throwers = {}
  /\ stream = NoStream
  /\ \E s \in ScoreArguments, o \in EvaluationOptions :
       util = [ op |-> "createEvaluation", returned |-> FALSE, score |-> s,
                options |-> o, value |-> InitialEvaluation ]

\* the call returns
CreateEvaluation ==
  /\ util.op = "createEvaluation"
  /\ ~util.returned
  /\ util' = [ util EXCEPT !.returned = TRUE,
                           !.value = createEvaluation(util.score,
                                                      util.options) ]
  /\ UNCHANGED << runVars, cfgVars, lsnVars, stream >>

NextUtils ==
  \/ CreateEvaluation

SpecUtils == InitUtils /\ [][NextUtils]_vars

\* C28: createEvaluation(s).score is s clamped to [0,100]: 0 for s < 0,
\* 100 for s > 100, s otherwise.
C28_ScoreClamped ==
  util.op = "createEvaluation" /\ util.returned
    => /\ util.score < 0 => util.value.score = 0
       /\ util.score > 100 => util.value.score = 100
       /\ util.score >= 0 /\ util.score <= 100
            => util.value.score = util.score
       /\ util.value.score >= 0
       /\ util.value.score <= 100

\* a score above 100 came back as 100
C28_Witness ==
  /\ util.op = "createEvaluation"
  /\ util.returned
  /\ util.score = 100 + ScoreSpan
  /\ util.value.score = 100

\* ----------------------------------------- context, bounds, terminal event
\* C31: every callback of iteration i receives a context with iteration =
\* i and maxIterations = the configured maximum, whose previousEvaluation
\* is absent for i = 0 and is the evaluation of history[i-1] for i > 0.
C31_ContextOfIteration ==
  \A n \in 1..Len(calls) :
    calls[n].phase \in {"act", "evaluate", "shouldTerminate", "transition"}
      => LET c == calls[n]
         IN  /\ c.context.iteration = c.iteration
             /\ c.context.maxIterations = config.maxIterations
             /\ c.iteration = 0 => c.context.previousEvaluation = Absent
             /\ c.iteration > 0
                  => c.context.previousEvaluation
                       = Some(history[c.iteration].evaluation)

\* evaluate of the second iteration received the first iteration's
\* evaluation as previousEvaluation
C31_Witness ==
  \E c \in CallSet :
    /\ c.phase = "evaluate"
    /\ c.iteration = 1
    /\ c.context.iteration = 1
    /\ c.context.previousEvaluation = Some(history[1].evaluation)
    /\ Len(history) = 2
    /\ history[2].evaluation # history[1].evaluation

\* C32: every configuration a processor holds has maxIterations > 0 and
\* minIterations >= 1.
C32_PositiveBounds ==
  \A k \in Processors :
    procs[k] # Absent
      => /\ ConfigOf(k).maxIterations # Absent
         /\ ConfigOf(k).maxIterations[1] > 0
         /\ ConfigOf(k).minIterations # Absent
         /\ ConfigOf(k).minIterations[1] >= 1

TerminalEvents ==
  { n \in 1..Len(events) : events[n][1] \in {"complete", "error"} }

\* C39: a run that has ended has emitted exactly one terminal event, as its
\* last event: complete if it resolved through finalize, error otherwise
\* (also when onError supplied the result), the error event carrying the
\* number of history entries.
C39_OneTerminalEvent ==
  /\ Cardinality(TerminalEvents) <= 1
  /\ pc = "done"
       => /\ TerminalEvents = { Len(events) }
          /\ outcome = "resolved" <=> events[Len(events)] = <<"complete">>
          /\ outcome \in {"rejected", "fallback"}
               <=> events[Len(events)] = <<"error", Len(history)>>
  /\ threw => <<"complete">> \notin EventSet

\* transition threw in the first iteration, after its history entry was
\* recorded, and onError supplied the result
C39_Witness ==
  /\ pc = "done"
  /\ outcome = "fallback"
  /\ i = 0
  /\ Len(history) = 1
  /\ events[Len(events)] = <<"error", 1>>
  /\ calls[Len(calls) - 1].phase = "transition"

\* the snapshot executeStream pushes before its loop
InitialSnapshot ==
  [ iteration |-> 0, state |-> Some(0), converged |-> FALSE,
    timedOut |-> FALSE, evaluation |-> Absent, actionResult |-> Absent ]

\* C33: the snapshot list of executeStream starts with the snapshot of
\* iteration 0 (initial state, not converged, no evaluation, no
\* actionResult); the snapshots of the executed iterations follow, numbered
\* 1, 2, ..., n in order, each with its iteration's actionResult and
\* evaluation and the state after its transition, or the state before it
\* when no transition ran; converged is set on the last snapshot at most;
\* the returned list has one such snapshot per executed iteration.
C33_SnapshotList ==
  LET S == stream.states
  IN  /\ S # <<>> => S[1] = InitialSnapshot
      /\ \A k \in 2..Len(S) :
           /\ S[k].converged => k = Len(S)
           /\ ~S[k].timedOut
                => /\ S[k].iteration = k - 1
                   /\ k - 1 <= Len(stream.history)
                   /\ S[k].actionResult
                        = Some(stream.history[k - 1].actionResult)
                   /\ S[k].evaluation
                        = Some(stream.history[k - 1].evaluation)
                   /\ S[k].state
                        = IF k - 1 \in StreamCalls("transition")
                            THEN Some(k - 1)
                          ELSE S[k - 1].state
      /\ stream.returned # Absent
           => /\ stream.returned[1] = S
              /\ Len(SelectSeq(S, LAMBDA st : ~st.timedOut))
                   = Len(stream.history) + 1

\* two iterations were executed, the first with a transition, the second
\* converged without one
C33_Witness ==
  /\ stream.returned # Absent
  /\ Len(stream.returned[1]) = 3
  /\ stream.returned[1][2].state = Some(1)
  /\ stream.returned[1][2].actionResult # stream.returned[1][3].actionResult
  /\ stream.returned[1][3].converged
  /\ stream.returned[1][3].state = Some(1)

\* the timeout check of the loop head fires
StreamTimeoutDue ==
  /\ stream.pc = "loop"
  /\ stream.iteration < stream.maxIterations
  /\ ~stream.converged
  /\ stream.timeout # Absent
  /\ stream.clock - stream.startTime > stream.timeout[1]

\* what the loop pass must then do
StreamTimeoutStop ==
  /\ stream'.states =
       Append(stream.states,
              [ iteration |-> Len(stream.history) + 1,
                state |-> stream.currentState, converged |-> FALSE,
                timedOut |-> TRUE, evaluation |-> Absent,
                actionResult |-> Absent ])
  /\ stream'.calls = stream.calls
  /\ stream'.pc = "finalize"

\* C34 as stated: whenever a timeout is configured and the elapsed time
\* exceeds it at the start of a loop pass of executeStream, the pass
\* appends the timedOut snapshot and goes to finalize without an act.
C34_AnyConfiguredTimeout ==
  [][StreamTimeoutDue => StreamTimeoutStop]_vars

\* C34 amended: whenever a non-zero timeout is configured and the elapsed
\* time exceeds it at the start of a loop pass after n completed
\* iterations, the pass appends one snapshot with timedOut, not converged,
\* iteration n + 1, the current state and no evaluation or actionResult,
\* and goes to finalize; a timedOut snapshot is the last snapshot, no act
\* is invoked for its iteration or later, and finalize is called.
C34_NonZeroTimeout ==
  /\ [][StreamTimeoutDue /\ stream.timeout[1] # 0
          => StreamTimeoutStop]_vars
  /\ [](\A k \in 1..Len(stream.states) :
          stream.states[k].timedOut
            => /\ k = Len(stream.states)
               /\ stream.states[k].iteration = Len(stream.history) + 1
               /\ \A n \in StreamCalls("act") : n <= Len(stream.history)
               /\ stream.pc = "done"
                    => stream.calls[Len(stream.calls)].phase = "finalize")

\* the timeout fired after one completed iteration and finalize resolved
C34_Witness ==
  /\ stream.outcome = "resolved"
  /\ Len(stream.history) = 1
  /\ stream.maxIterations = MaxIter
  /\ stream.states[Len(stream.states)].timedOut
  /\ stream.states[Len(stream.states)].iteration = 2
  /\ stream.states[Len(stream.states)].state = Some(1)
  /\ stream.calls[Len(stream.calls)].phase = "finalize"

\* C35: evaluationStream and actionStream yield the evaluations,
\* respectively the action results, of the iterations executeStream
\* executed, in iteration order and one per iteration; the initial snapshot
\* and a timeout snapshot add no element.
C35_YieldedPerIteration ==
  stream.yielded # Absent
    => LET y == stream.yielded[1]
       IN  /\ Len(y.items) = Len(stream.history)
           /\ \A k \in 1..Len(y.items) :
                y.items[k] = IF y.method = "evaluationStream"
                               THEN stream.history[k].evaluation
                             ELSE stream.history[k].actionResult

\* evaluationStream yielded two evaluations, the second of a converged
\* iteration, from a list of three snapshots
C35_Witness ==
  /\ stream.yielded # Absent
  /\ stream.yielded[1].method = "evaluationStream"
  /\ Len(stream.yielded[1].items) = 2
  /\ stream.yielded[1].items[1] # stream.yielded[1].items[2]
  /\ Len(stream.returned[1]) = 3
  /\ stream.returned[1][3].converged

\* C37: when a callback of executeStream throws, the promise rejects with
\* the error of that callback, which is the last call made: onError is
\* never called, finalize is not called after an earlier failure, and no
\* stream is returned.
C37_RejectionReturnsNothing ==
  /\ StreamCalls("onError") = {}
  /\ stream.outcome = "rejected"
       => /\ stream.rejection = Some(stream.calls[Len(stream.calls)].phase)
          /\ \A k \in 1..(Len(stream.calls) - 1) :
               stream.calls[k].phase # "finalize"
          /\ stream.returned = Absent
          /\ stream.yielded = Absent

\* transition threw in the second iteration, with onError supplied and two
\* snapshots already computed
C37_Witness ==
  /\ stream.outcome = "rejected"
  /\ stream.config.onError
  /\ stream.rejection = Some("transition")
  /\ stream.iteration = 2
  /\ Len(stream.states) = 2

\* ------------------------------------- run() and executeStream() compared
\* the configurations given to both: the target is reached by the upper
\* score only, with and without an early-stop threshold above it
BothConfigInputs ==
  [ maxIterations : {Some(MaxIter)},
    minIterations : {Absent} \cup {Some(n) : n \in 1..MaxIter},
    targetScore : {Absent, Some(95)},
    earlyStopScore : {Absent, Some(200)},
    timeout : {Absent, Some(1)},
    verbose : {Absent},
    alwaysRunTransition : {Absent},
    skipMinIterations : {Absent, Some(TRUE)},
    logger : {Absent} ]

\* an IterationProcessor and a StreamingIteratoP constructed from the same
\* IterationConfig and the same callbacks
InitBoth ==
  /\ \E c \in BothConfigInputs :
       /\ ~ConstructorThrows(c)
       /\ config = Constructor(c)
       /\ options \in OptionInputs
       /\ stream = [ pc |-> "start",
                     config |-> [ transition |-> TRUE, finalize |-> TRUE,
                                  shouldTerminate |-> options.shouldTerminate,
                                  onError |-> options.onError ],
                     options |-> c,
                     clock |-> 0, startTime |-> 0,
                     maxIterations |-> 0, minIterations |-> 0,
                     targetScore |-> 0, skipMinIterations |-> FALSE,
                     timeout |-> Absent,
                     currentState |-> Absent, iteration |-> 0,
                     converged |-> FALSE, history |-> <<>>, states |-> <<>>,
                     evaluation |-> InitialEvaluation,
                     actionResult |-> NoActionResult,
                     calls |-> <<>>, outcome |-> "none",
                     rejection |-> Absent,
                     returned |-> Absent, yielded |-> Absent ]
  /\ RunIdle
  /\ startConfig = config
  /\ procs = << Absent, Absent >>
  /\ snapshot = NoSnapshot
  /\ lastCall = NoCall
  /\ listeners = <<>>
  /\ handles = <<>>
  /\ throwers = {}
  /\ util = NoUtil

\* act and evaluate are the same functions of the iteration in both
\* executions: what they returned to run() they return to executeStream
SameCallbacks ==
  \A k \in 1..Len(stream.history) :
    k <= Len(history)
      => /\ stream.history[k].actionResult = history[k].actionResult
         /\ stream.history[k].evaluation = history[k].evaluation

\* executeStream, called once run() has resolved, with the same callbacks
StreamAfterRun ==
  /\ outcome = "resolved"
  /\ NextStream
  /\ SameCallbacks'

NextBoth ==
  \/ Next
  \/ StreamAfterRun

SpecBoth == InitBoth /\ [][NextBoth]_vars

\* the calls of act made by executeStream
StreamActCount ==
  Cardinality({ k \in 1..Len(stream.calls) : stream.calls[k].phase = "act" })

\* every evaluation of the history is below earlyStopScore and asks to
\* continue
NoStopRequested(h) ==
  \A k \in 1..Len(h) :
    /\ h[k].evaluation.score < config.earlyStopScore
    /\ h[k].evaluation.shouldContinue

\* C36: with the same config (minIterations <= maxIterations), the same
\* evaluation sequence, no shouldTerminate, no timeout, every score below
\* earlyStopScore and every shouldContinue true, run() and executeStream()
\* execute the same number of act/evaluate iterations, and both end on an
\* evaluation that reached the target or after maxIterations iterations.
C36_SameIterationCount ==
  (/\ outcome = "resolved"
   /\ stream.outcome = "resolved"
   /\ config.minIterations <= config.maxIterations
   /\ ~options.shouldTerminate
   /\ config.timeout = Absent
   /\ NoStopRequested(history)
   /\ NoStopRequested(stream.history))
    => /\ Len(stream.history) = Len(history)
       /\ StreamActCount = CallCount("act")
       /\ \A k \in 1..Len(history) :
            stream.history[k].evaluation = history[k].evaluation
       /\ \/ Len(history) = config.maxIterations
          \/ history[Len(history)].evaluation.score >= config.targetScore

\* the first evaluation reached the target below the floor MaxIter: both
\* executions went on and stopped at the evaluation number MaxIter
C36_Witness ==
  /\ outcome = "resolved"
  /\ stream.outcome = "resolved"
  /\ ~options.shouldTerminate
  /\ config.timeout = Absent
  /\ config.earlyStopScore = 200
  /\ config.targetScore = 95
  /\ config.minIterations = MaxIter
  /\ NoStopRequested(history)
  /\ Len(history) = MaxIter
  /\ Len(stream.history) = MaxIter
  /\ history[1].evaluation.score = 95
  /\ ~stream.states[2].converged
  /\ stream.states[MaxIter + 1].converged

\* --------------------------------- two run() invocations on one processor
\* run() is async: a second invocation can start while the first awaits a
\* callback, and their continuations interleave at the awaits.  The
\* callbacks here do not throw, there is no shouldTerminate, no timeout and
\* no listener.  The state initialize returns to invocation id is
\* <<id, 0>>, the state its transition of iteration j returns is
\* <<id, j + 1>>, the data its act of iteration j returns is <<id, j>>.
Invocations == 1..2

\* the configurations of the processor
RunsConfigInputs ==
  { c \in BothConfigInputs :
      /\ c.minIterations \in {Absent, Some(MaxIter)}
      /\ c.targetScore = Some(95)
      /\ c.earlyStopScore = Some(200)
      /\ c.timeout = Absent
      /\ c.skipMinIterations = Absent }

\* the locals run() declares on entry
NewFrame ==
  [ i |-> 0, state |-> Absent, history |-> <<>>,
    finalEvaluation |-> InitialEvaluation,
    terminationReason |-> "max_iterations",
    actionResult |-> NoActionResult, decision |-> NoDecision ]

\* locals that belong to the processor instead of the invocation
Frame_Shared(id) == 1

\* where invocation id keeps its locals: const and let bindings of an
\* async function body belong to the call
Frame(id) == id

Local(id) == util.frames[Frame(id)]

\* two invocations are about to be made on a constructed processor
InitRuns ==
  /\ config = Constructor(AsConfig(EmptyPartial))
  /\ options = [ shouldTerminate |-> FALSE, onError |-> FALSE ]
  /\ RunIdle
  /\ startConfig = config
  /\ procs = << Absent, Absent >>
  /\ snapshot = NoSnapshot
  /\ lastCall = NoCall
  /\ listeners = <<>>
  /\ handles = <<>>
  /\ throwers = {}
  /\ stream = NoStream
  /\ \E c \in RunsConfigInputs :
       util = [ op |-> "runs", config |-> Constructor(c),
                pcs |-> [ id \in Invocations |-> "idle" ],
                frames |-> [ id \in Invocations |-> NewFrame ],
                evals |-> [ id \in Invocations |-> <<>> ],
                results |-> [ id \in Invocations |-> Absent ],
                calls |-> [ id \in Invocations |-> <<>> ] ]

notUtil ==
  << runVars, cfgVars, lsnVars, stream >>

\* the calls of invocation id, with one more to a callback
RunsCall(id, phase, f) ==
  Append(util.calls[id],
         [ id |-> id, phase |-> phase, iteration |-> f.i,
           state |-> f.state ])

\* the rest of the loop body after the transition step, up to the next
\* await: the termination check with its break, or i++ and the loop test
FrameAfter(f, d) ==
  IF d.terminate THEN [ f EXCEPT !.terminationReason = d.reason ]
  ELSE [ f EXCEPT !.i = @ + 1 ]

PcAfter(f, d, cfg) ==
  IF d.terminate THEN "finalize"
  ELSE IF f.i + 1 < cfg.maxIterations THEN "act"
  ELSE "finalize"

\* run(input) is called: the locals, up to await initialize
RunsStart ==
  /\ util.op = "runs"
  /\ \E id \in Invocations :
       /\ util.pcs[id] = "idle"
       /\ util' = [ util EXCEPT !.frames[Frame(id)] = NewFrame,
                                !.pcs[id] = "initialize" ]
  /\ UNCHANGED notUtil

\* initialize resolves: state, the first loop test, up to await act
RunsInitialize ==
  /\ util.op = "runs"
  /\ \E id \in Invocations :
       /\ util.pcs[id] = "initialize"
       /\ util' = [ util EXCEPT
                      !.calls[id] = RunsCall(id, "initialize", Local(id)),
                      !.frames[Frame(id)].state = Some(<< id, 0 >>),
                      !.pcs[id] = IF Local(id).i < util.config.maxIterations
                                    THEN "act" ELSE "finalize" ]
  /\ UNCHANGED notUtil

\* act resolves: actionResult, up to await evaluate
RunsAct ==
  /\ util.op = "runs"
  /\ \E id \in Invocations :
       /\ util.pcs[id] = "act"
       /\ util' = [ util EXCEPT
                      !.calls[id] = RunsCall(id, "act", Local(id)),
                      !.frames[Frame(id)].actionResult =
                         [ data |-> << id, Local(id).i >>, cost |-> Absent ],
                      !.pcs[id] = "evaluate" ]
  /\ UNCHANGED notUtil

\* evaluate resolves: finalEvaluation, the history entry, checkTermination
\* and the transition gate, up to await transition or the next await
RunsEvaluate ==
  /\ util.op = "runs"
  /\ \E id \in Invocations, ev \in Evaluations :
       /\ util.pcs[id] = "evaluate"
       /\ LET f == Local(id)
              d == checkTermination(FALSE, ev, f.i, util.config)
              g == [ f EXCEPT !.finalEvaluation = ev,
                              !.history = Append(@, HistoryEntry(
                                                      f.i, f.actionResult,
                                                      ev)),
                              !.decision = d ]
              gate == TransitionGate(f.i, d, util.config)
          IN  util' = [ util EXCEPT
                          !.calls[id] = RunsCall(id, "evaluate", f),
                          !.evals[id] = Append(@, ev),
                          !.frames[Frame(id)] =
                             IF gate THEN g ELSE FrameAfter(g, d),
                          !.pcs[id] =
                             IF gate THEN "transition"
                             ELSE PcAfter(g, d, util.config) ]
  /\ UNCHANGED notUtil

\* transition resolves: state, the termination check, up to the next await
RunsTransition ==
  /\ util.op = "runs"
  /\ \E id \in Invocations :
       /\ util.pcs[id] = "transition"
       /\ LET f == Local(id)
              g == [ f EXCEPT !.state = Some(<< id, f.i + 1 >>) ]
          IN  util' = [ util EXCEPT
                          !.calls[id] = RunsCall(id, "transition", f),
                          !.frames[Frame(id)] = FrameAfter(g, f.decision),
                          !.pcs[id] = PcAfter(g, f.decision, util.config) ]
  /\ UNCHANGED notUtil

\* finalize resolves: the IterationResult is returned
RunsFinalize ==
  /\ util.op = "runs"
  /\ \E id \in Invocations :
       /\ util.pcs[id] = "finalize"
       /\ LET f == Local(id)
          IN  util' = [ util EXCEPT
                          !.calls[id] = RunsCall(id, "finalize", f),
                          !.results[id] =
                             Some(IterationResult(f.history,
                                                  f.finalEvaluation,
                                                  f.terminationReason,
                                                  util.config)),
                          !.pcs[id] = "done" ]
  /\ UNCHANGED notUtil

NextRuns ==
  \/ RunsStart
  \/ RunsInitialize
  \/ RunsAct
  \/ RunsEvaluate
  \/ RunsTransition
  \/ RunsFinalize

SpecRuns == InitRuns /\ [][NextRuns]_vars

\* the calls invocation id made to the callback, in order
RunsCalls(id, phase) ==
  SelectSeq(util.calls[id], LAMBDA c : c.phase = phase)

\* C38: two interleaved run() invocations on one processor do not share
\* loop state: every callback of an invocation receives that invocation's
\* state, its act calls are numbered 0, 1, 2, ... and its Result holds
\* exactly its own iterations, with indices 0..n-1, its own action results
\* and evaluations, and the termination reason of its own last evaluation.
C38_InvocationsKeepOwnLoopState ==
  util.op = "runs"
    => \A id \in Invocations :
         /\ \A k \in 1..Len(util.calls[id]) :
              LET c == util.calls[id][k]
              IN  c.state # Absent => c.state[1][1] = id
         /\ \A k \in 1..Len(RunsCalls(id, "act")) :
              RunsCalls(id, "act")[k].iteration = k - 1
         /\ util.results[id] # Absent
              => LET r == util.results[id][1]
                     evs == util.evals[id]
                 IN  /\ r.iterations = Len(evs)
                     /\ Len(r.history) = Len(evs)
                     /\ \A k \in 1..Len(evs) :
                          r.history[k]
                            = HistoryEntry(k - 1,
                                           [ data |-> << id, k - 1 >>,
                                             cost |-> Absent ],
                                           evs[k])
                     /\ r.terminationReason
                          = IF evs = <<>> THEN "max_iterations"
                            ELSE checkTermination(FALSE, evs[Len(evs)],
                                                  Len(evs) - 1,
                                                  util.config).reason

\* the second invocation has returned after one iteration while the first,
\* started before it, awaits the evaluate of its iteration MaxIter - 1
C38_Witness ==
  /\ util.op = "runs"
  /\ util.pcs[1] = "evaluate"
  /\ Local(1).i = MaxIter - 1
  /\ Len(Local(1).history) = MaxIter - 1
  /\ util.results[2] # Absent
  /\ util.results[2][1].iterations = 1
  /\ util.results[2][1].terminationReason = "converged"
  /\ Local(1).terminationReason = "max_iterations"

\* ------------------------------------------------------------- withRetry
\* the largest maxRetries handed to withRetry
MaxRetries == 2

DefaultRetries == 3
DefaultInitialDelay == 1000
DefaultMaxDelay == 10000
DefaultBackoffFactor == 2

\* the options handed to withRetry: every key may be left out
RetryOptions ==
  [ maxRetries : {Absent} \cup {Some(n) : n \in 0..MaxRetries},
    initialDelay : {Absent, Some(10), Some(20000)},
    maxDelay : {Absent, Some(25)},
    backoffFactor : {Absent, Some(1), Some(3)} ]

\* what an attempt of fn throws: an Error or another value
ThrownValues(attempt) ==
  [ kind : {"Error", "string"}, attempt : {attempt}, wrapped : {FALSE} ]

\* error instanceof Error ? error : new Error(String(error))
AsError(e) ==
  IF e.kind = "Error" THEN e
  ELSE [ e EXCEPT !.kind = "Error", !.wrapped = TRUE ]

\* withRetry(fn, options) has been called: the destructured options with
\* their defaults, lastError and delay
InitRetry ==
  /\ config = Constructor(AsConfig(EmptyPartial))
  /\ options = [ shouldTerminate |-> FALSE, onError |-> FALSE ]
  /\ RunIdle
  /\ startConfig = config
  /\ procs = << Absent, Absent >>
  /\ snapshot = NoSnapshot
  /\ lastCall = NoCall
  /\ listeners = <<>>
  /\ handles = <<>>
  /\ throwers = {}
  /\ stream = NoStream
  /\ \E o \in RetryOptions :
       util = [ op |-> "withRetry", pc |-> "loop",
                maxRetries |-> Coalesce(o.maxRetries, DefaultRetries),
                initialDelay |->
                  Coalesce(o.initialDelay, DefaultInitialDelay),
                maxDelay |-> Coalesce(o.maxDelay, DefaultMaxDelay),
                backoffFactor |->
                  Coalesce(o.backoffFactor, DefaultBackoffFactor),
                lastError |-> Absent,
                delay |-> Coalesce(o.initialDelay, DefaultInitialDelay),
                attempt |-> 0,
                thrown |-> <<>>, sleeps |-> <<>>, invoked |-> 0,
                outcome |-> "none", value |-> Absent,
                rejection |-> Absent ]

\* the for test attempt <= maxRetries, and throw lastError after the loop
RetryLoop ==
  /\ util.op = "withRetry"
  /\ util.pc = "loop"
  /\ util' = IF util.attempt <= util.maxRetries
               THEN [ util EXCEPT !.pc = "fn" ]
             ELSE [ util EXCEPT !.pc = "done", !.outcome = "rejected",
                                !.rejection = util.lastError ]
  /\ UNCHANGED notUtil

\* return await fn(), or the catch block up to its sleep
RetryAttempt ==
  /\ util.op = "withRetry"
  /\ util.pc = "fn"
  /\ \/ util' = [ util EXCEPT !.invoked = @ + 1,
                               !.value = Some(util.attempt),
                               !.outcome = "returned",
                               !.pc = "done" ]
     \/ \E e \in ThrownValues(util.attempt) :
          util' = IF util.attempt < util.maxRetries
                    THEN [ util EXCEPT !.invoked = @ + 1,
                                       !.thrown = Append(@, e),
                                       !.lastError = Some(AsError(e)),
                                       !.pc = "sleep" ]
                  ELSE [ util EXCEPT !.invoked = @ + 1,
                                     !.thrown = Append(@, e),
                                     !.lastError = Some(AsError(e)),
                                     !.attempt = @ + 1,
                                     !.pc = "loop" ]
  /\ UNCHANGED notUtil

\* await sleep(delay); delay = Math.min(delay * backoffFactor, maxDelay);
\* attempt++
RetrySleep ==
  /\ util.op = "withRetry"
  /\ util.pc = "sleep"
  /\ util' = [ util EXCEPT
                 !.sleeps = Append(@, util.delay),
                 !.delay = MathMin(util.delay * util.backoffFactor,
                                   util.maxDelay),
                 !.attempt = @ + 1,
                 !.pc = "loop" ]
  /\ UNCHANGED notUtil

NextRetry ==
  \/ RetryLoop
  \/ RetryAttempt
  \/ RetrySleep

SpecRetry == InitRetry /\ [][NextRetry]_vars

\* C40: withRetry invokes fn at most maxRetries + 1 times, one attempt
\* after the other; it returns the result of the first attempt that
\* succeeds and invokes fn no more; when maxRetries + 1 attempts have
\* failed it rejects with the error of the last one; it waits once after
\* every failed attempt but the last, first for initialDelay, then for the
\* previous delay times backoffFactor, and no wait is longer than maxDelay.
C40_RetryContract ==
  util.op = "withRetry"
    => /\ util.invoked <= util.maxRetries + 1
       /\ Len(util.thrown) <= util.invoked
       /\ util.outcome = "returned"
            => /\ util.value = Some(util.invoked - 1)
               /\ Len(util.thrown) = util.invoked - 1
               /\ Len(util.sleeps) = Len(util.thrown)
       /\ util.outcome = "rejected"
            => /\ util.invoked = util.maxRetries + 1
               /\ Len(util.thrown) = util.invoked
               /\ util.rejection
                    = Some(AsError(util.thrown[Len(util.thrown)]))
               /\ Len(util.sleeps) = util.maxRetries
       /\ Len(util.sleeps) <= Len(util.thrown)
       /\ \A k \in 1..Len(util.sleeps) :
            /\ k = 1 => util.sleeps[k] = util.initialDelay
            /\ k > 1 => util.sleeps[k]
                          = MathMin(util.sleeps[k - 1] * util.backoffFactor,
                                    util.maxDelay)
            /\ util.sleeps[k] <= util.maxDelay

=============================================================================
